---- MODULE Spec2Model ----
(***************************************************************************)
(* Decision Queue Engine of arbiter-zebu: the document codec (parser and   *)
(* writer), the atomic file operator and the QueueManager, as a state      *)
(* machine over a small file system.                                       *)
(*                                                                         *)
(* A document is the sequence of its lines (content.split('\n')); a line   *)
(* is a record [k, s, n]: k is what the line starts with (a key of a       *)
(* "key: value" line, "---", "##", "**", "-", "#", "txt" or "" for a blank *)
(* line), s the text value as a sequence of tokens (an id is spelled       *)
(* character by character, because the writer matches ids by substring),   *)
(* n a number or timestamp (0 = null).                                     *)
(***************************************************************************)
EXTENDS Integers, Sequences, FiniteSets, TLC

(* ------------------------------ bounds --------------------------------- *)

\* wall-clock instants the run passes through (new Date() reads `now`)
MaxTime == 2

(* --------------------------- small helpers ----------------------------- *)

Null == <<>>
Some(x) == <<x>>

Line(k, s, n) == [k |-> k, s |-> s, n |-> n]
Fence == Line("---", <<>>, 0)
Blank == Line("", <<>>, 0)
Heading == Line("##", <<>>, 0)

\* the text of JS null as it appears in a document, and JS null as a value
NullText == <<"null">>
NullValue == <<"<null>">>

\* the reserved answer of skipDecision
SkipSentinel == <<"__skipped__">>

\* String.prototype.includes on character sequences
Includes(hay, needle) ==
  \E i \in 0..(Len(hay) - Len(needle)) : SubSeq(hay, i + 1, i + Len(needle)) = needle

\* the text of an "id: <value>" line, character by character
IdLineText(line) == <<"i", "d", ":", " ">> \o line.s

(* ------------------------- gray-matter (front matter) ------------------ *)

\* index of the first fence after line 1, 0 if there is none
RECURSIVE ClosingFence(_, _)
ClosingFence(content, i) ==
  IF i > Len(content) THEN 0
  ELSE IF content[i] = Fence THEN i
  ELSE ClosingFence(content, i + 1)

\* matter(content): the metadata lines between the two fences and the body
matter(content) ==
  LET close == ClosingFence(content, 2) IN
  IF content = <<>> \/ content[1] # Fence \/ close = 0
  THEN [data |-> <<>>, body |-> content]
  ELSE [data |-> SubSeq(content, 2, close - 1),
        body |-> SubSeq(content, close + 1, Len(content))]

HasKey(data, key) == \E i \in 1..Len(data) : data[i].k = key

\* data[key]; YAML keeps one value per key
Get(data, key) == data[CHOOSE i \in 1..Len(data) : data[i].k = key]

\* { ...data, ...updates }: an existing key keeps its place, a new key is appended
RECURSIVE Merge(_, _)
Merge(data, updates) ==
  IF updates = <<>> THEN data
  ELSE LET u == Head(updates)
           d == IF HasKey(data, u.k)
                THEN [i \in 1..Len(data) |-> IF data[i].k = u.k THEN u ELSE data[i]]
                ELSE Append(data, u)
       IN Merge(d, Tail(updates))

\* matter.stringify(body, data): fences around the metadata, then the body,
\* which is made to end with a newline
stringify(body, data) ==
  LET b == IF body # <<>> /\ body[Len(body)] = Blank THEN body ELSE Append(body, Blank)
  IN <<Fence>> \o data \o <<Fence>> \o b

updateFrontmatter(content, updates) ==
  LET m == matter(content) IN stringify(m.body, Merge(m.data, updates))

(* ------------------------------ parser --------------------------------- *)

EmptyDecision ==
  [id |-> <<>>, status |-> "pending", answer |-> NullValue, answeredAt |-> 0,
   allowCustom |-> FALSE]

Token(s) == IF s = <<>> THEN "" ELSE s[1]

\* one line of a decision section applied to the decision built so far
ParseSectionLine(d, line) ==
  CASE line.k = "id" -> [d EXCEPT !.id = line.s]
    [] line.k = "status" -> [d EXCEPT !.status = Token(line.s)]
    [] line.k = "answer" ->
         [d EXCEPT !.answer = IF line.s = NullText \/ line.s = <<>> THEN NullValue ELSE line.s]
    [] line.k = "answered_at" -> [d EXCEPT !.answeredAt = line.n]
    [] line.k = "allow_custom" -> [d EXCEPT !.allowCustom = (line.s = <<"true">>)]
    [] OTHER -> d

RECURSIVE ParseSectionLines(_, _)
ParseSectionLines(d, lines) ==
  IF lines = <<>> THEN d
  ELSE ParseSectionLines(ParseSectionLine(d, Head(lines)), Tail(lines))

\* parseDecisionSection: Null when the section has no id
parseDecisionSection(section) ==
  IF section = <<>> \/ section[1].k # "##" THEN Null
  ELSE LET d == ParseSectionLines(EmptyDecision, Tail(section))
       IN IF d.id = <<>> THEN Null ELSE Some(d)

\* body.split(/(?=^## Decision \d+:)/gm): the sections after the context part
RECURSIVE SplitSections(_, _, _)
SplitSections(lines, cur, acc) ==
  IF lines = <<>> THEN Append(acc, cur)
  ELSE IF Head(lines).k = "##"
       THEN SplitSections(Tail(lines), <<Head(lines)>>, Append(acc, cur))
       ELSE SplitSections(Tail(lines), Append(cur, Head(lines)), acc)

RECURSIVE ParseSections(_)
ParseSections(sections) ==
  IF sections = <<>> THEN <<>>
  ELSE parseDecisionSection(Head(sections)) \o ParseSections(Tail(sections))

RequiredFields == {"id", "agent", "session", "title", "status"}

NumOr(data, key, dflt) == IF HasKey(data, key) THEN Get(data, key).n ELSE dflt
TextOr(data, key, dflt) == IF HasKey(data, key) THEN Get(data, key).s ELSE dflt

\* remaining as the metadata gives it
RemainingFromMetadata(data, total, answered) == NumOr(data, "remaining", 0)

\* frontmatter.remaining = frontmatter.total - frontmatter.answered
Remaining(data, total, answered) == total - answered

\* parseDecisionFile(content, filePath) at instant t: Null or Some(plan)
parseDecisionFile(content, filePath, t) ==
  LET m == matter(content)
      data == m.data
      decisions == ParseSections(Tail(SplitSections(m.body, <<>>, <<>>)))
      total0 == NumOr(data, "total", 0)
      answered0 == NumOr(data, "answered", 0)
      total == IF total0 = 0 THEN Len(decisions) ELSE total0
      answered == IF answered0 = 0
                  THEN Cardinality({i \in 1..Len(decisions) : decisions[i].answer # NullValue})
                  ELSE answered0
      frontmatter ==
                  [id |-> Get(data, "id").s,
                   status |-> Token(Get(data, "status").s),
                   total |-> total,
                   answered |-> answered,
                   agent |-> Get(data, "agent").s,
                   session |-> Get(data, "session").s,
                   tag |-> TextOr(data, "tag", <<>>),
                   title |-> Get(data, "title").s,
                   priority |-> Token(TextOr(data, "priority", <<"normal">>)),
                   createdAt |-> NumOr(data, "created_at", t),
                   updatedAt |-> NumOr(data, "updated_at", t),
                   completedAt |-> NumOr(data, "completed_at", 0),
                   remaining |-> Remaining(data, total, answered),
                   notifySession |-> TextOr(data, "notify_session", <<>>)]
     IN IF \E f \in RequiredFields : ~HasKey(data, f) THEN Null
        ELSE Some([rawContent |-> content,
                   filePath |-> filePath,
                   decisions |-> decisions,
                   frontmatter |-> frontmatter])

\* isValidDecisionFile that does not look at the decisions
isValidDecisionFileAnyLength(file) == file.frontmatter.id # <<>>

isValidDecisionFile(file) == Len(file.decisions) > 0 /\ file.frontmatter.id # <<>>

(* ------------------------------ writer --------------------------------- *)

\* updateDecisionInBody, the body of its loop: one line read in the loop
\* state st = [inTarget, foundAnswer]; out is what is pushed on result
UpdateLine(line, decisionId, answer, status, t, st) ==
  LET found1 == IF line.k = "##" THEN FALSE ELSE st.foundAnswer
      in0 == IF line.k = "##" THEN FALSE ELSE st.inTarget
      in1 == IF line.k = "id" /\ Includes(IdLineText(line), decisionId) THEN TRUE ELSE in0
  IN IF in1 /\ line.k = "status"
       THEN [out |-> <<Line("status", <<status>>, 0)>>,
             inTarget |-> in1, foundAnswer |-> found1]
     ELSE IF in1 /\ line.k = "answer"
       THEN [out |-> <<Line("answer", answer, 0)>>,
             inTarget |-> in1, foundAnswer |-> TRUE]
     ELSE IF in1 /\ line.k = "answered_at"
       THEN [out |-> <<Line("answered_at", <<>>, t)>>,
             inTarget |-> in1, foundAnswer |-> found1]
     ELSE IF in1 /\ ~found1 /\ line.k \in {"", "**", "-", "---"}
       THEN [out |-> <<Line("answer", answer, 0), Line("answered_at", <<>>, t), line>>,
             inTarget |-> in1, foundAnswer |-> TRUE]
     ELSE [out |-> <<line>>, inTarget |-> in1, foundAnswer |-> found1]

\* the loop over lines[lo..hi] entered in state st, run as two half loops
RECURSIVE UpdateLines(_, _, _, _, _, _, _, _)
UpdateLines(lines, lo, hi, decisionId, answer, status, t, st) ==
  IF lo > hi THEN [out |-> <<>>, inTarget |-> st.inTarget, foundAnswer |-> st.foundAnswer]
  ELSE IF lo = hi THEN UpdateLine(lines[lo], decisionId, answer, status, t, st)
  ELSE LET mid == (lo + hi) \div 2
           left == UpdateLines(lines, lo, mid, decisionId, answer, status, t, st)
           right == UpdateLines(lines, mid + 1, hi, decisionId, answer, status, t, left)
       IN [out |-> left.out \o right.out,
           inTarget |-> right.inTarget, foundAnswer |-> right.foundAnswer]

updateDecisionInBody(content, decisionId, answer, status, t) ==
  UpdateLines(content, 1, Len(content), decisionId, answer, status, t,
              [out |-> <<>>, inTarget |-> FALSE, foundAnswer |-> FALSE]).out

\* NewStatus as it was before the explicit submit step: the last answer completes
NewStatusAutoComplete(remaining) == IF remaining = 0 THEN "completed" ELSE "in_progress"

\* updateDecision: 'ready' when nothing remains, 'completed' only on submit
NewStatus(remaining) == IF remaining = 0 THEN "ready" ELSE "in_progress"

\* updateDecision: the decisions that count as answered after the call
AnsweredCount(parsed, decisionId) ==
  Cardinality({i \in 1..Len(parsed.decisions) :
                 parsed.decisions[i].answer # NullValue \/ parsed.decisions[i].id = decisionId})

\* updateDecision between its read and its write: the new content, from the
\* content read and its parse
updateDecisionContent(content, parsed, decisionId, answer, t) ==
  LET body == updateDecisionInBody(content, decisionId, answer, "answered", t)
      answeredCount == AnsweredCount(parsed, decisionId)
      remaining == Len(parsed.decisions) - answeredCount
  IN updateFrontmatter(body,
       <<Line("status", <<NewStatus(remaining)>>, 0),
         Line("answered", <<>>, answeredCount),
         Line("remaining", <<>>, remaining),
         Line("updated_at", <<>>, t)>>)

\* completePlanContent that marks the status but forgets the completion time
completePlanContentNoStamp(content, t) ==
  updateFrontmatter(content,
    <<Line("status", <<"completed">>, 0),
      Line("updated_at", <<>>, t)>>)

\* completePlan between its read and its write
completePlanContent(content, t) ==
  updateFrontmatter(content,
    <<Line("status", <<"completed">>, 0),
      Line("completed_at", <<>>, t),
      Line("updated_at", <<>>, t)>>)

\* the answers handlePlanCompleted collects: one entry per decision with an answer
RECURSIVE AnswerLines(_)
AnswerLines(decisions) ==
  IF decisions = <<>> THEN <<>>
  ELSE LET d == Head(decisions)
           rest == AnswerLines(Tail(decisions))
       IN IF d.answer = NullValue THEN rest
          ELSE <<Line("-", d.id \o <<": ">> \o d.answer, 0)>> \o rest

\* writeNotification: the content
NotificationContent(plan, t) ==
  stringify(<<Blank, Line("txt", <<"## Answers">>, 0), Blank>>
              \o AnswerLines(plan.decisions) \o <<Blank>>,
            <<Line("plan_id", plan.frontmatter.id, 0),
              Line("plan_title", plan.frontmatter.title, 0),
              Line("agent", plan.frontmatter.agent, 0),
              Line("session", plan.frontmatter.session, 0),
              Line("notify_session", plan.frontmatter.notifySession, 0),
              Line("completed_at", <<>>, t)>>)

(* ------------------------- the documents of a run ---------------------- *)

\* decision ids: "a" is contained in "ab" and in the plan id "pa"
DecisionIds == {<<"a">>, <<"a", "b">>, <<"c">>}
IdPairs == {<<<<"a">>, <<"a", "b">>>>, <<<<"a">>, <<"c">>>>}
ThePlanId == <<"p", "a">>
PlanIds == {ThePlanId, <<"q">>}
\* answer values a caller passes: an option key, and the text "null"
Answers == {<<"x">>, NullText}
TheFile == <<"plan", ".md">>
Shapes == {"full", "bare"}

\* one decision section as the producer writes it; "bare" has no answer lines
Section(id, shape) ==
  <<Heading, Blank, Line("id", id, 0), Line("status", <<"pending">>, 0)>>
  \o (IF shape = "full"
      THEN <<Line("answer", NullText, 0), Line("answered_at", <<>>, 0)>> ELSE <<>>)
  \o <<Blank, Line("**", <<"Context">>, 0), Blank, Line("**", <<"Options">>, 0),
       Line("-", <<"x">>, 0), Line("-", <<"y">>, 0), Blank>>

\* a two-decision document laid out as in the tests' VALID_DECISION_FILE
Document(ids, shape, notify) ==
  <<Fence,
    Line("id", ThePlanId, 0), Line("version", <<>>, 1),
    Line("agent", <<"agent">>, 0), Line("session", <<"session">>, 0),
    Line("tag", <<"tag">>, 0), Line("title", <<"title">>, 0),
    Line("priority", <<"normal">>, 0), Line("status", <<"pending">>, 0),
    Line("created_at", <<>>, 1), Line("updated_at", <<>>, 1),
    Line("completed_at", <<>>, 0),
    Line("total", <<>>, 2), Line("answered", <<>>, 0), Line("remaining", <<>>, 2)>>
  \o (IF notify THEN <<Line("notify_session", <<"n", "s">>, 0)>> ELSE <<>>)
  \o <<Fence, Blank, Line("#", <<"title">>, 0), Blank, Line("txt", <<"context">>, 0),
       Blank, Fence, Blank>>
  \o Section(ids[1], shape) \o <<Fence, Blank>> \o Section(ids[2], shape)

(* ------------------- the documents a producer writes ------------------- *)

\* String.replace on one metadata line, as the tests derive their documents
SetField(content, line) ==
  [i \in 1..Len(content) |->
     IF i < ClosingFence(content, 2) /\ content[i].k = line.k THEN line ELSE content[i]]

\* the document without the metadata line of that key
DropField(content, key) ==
  LET Kept(i) == ~(i < ClosingFence(content, 2) /\ content[i].k = key)
      kept == SelectSeq([i \in 1..Len(content) |-> i], Kept)
  IN [j \in 1..Len(kept) |-> content[kept[j]]]

\* the document up to its first decision section
NoSections(content) ==
  LET heads == {i \in 1..Len(content) : content[i] = Heading} IN
  IF heads = {} THEN content
  ELSE SubSeq(content, 1, (CHOOSE i \in heads : \A j \in heads : i <= j) - 1)

BaseDocument == Document(<<<<"a">>, <<"c">>>>, "full", FALSE)

\* values of total, answered and remaining a document's metadata may carry
MetaTotals == {0, 2, 3}
MetaAnswered == {0, 1}
MetaRemaining == {0, 5}

\* a two-decision document with these counters in its metadata, decision c
\* answered in the body or not
CounterDocument(total, answered, remaining, answeredInBody) ==
  LET body == IF answeredInBody
              THEN updateDecisionInBody(BaseDocument, <<"c">>, <<"x">>, "answered", 1)
              ELSE BaseDocument
  IN SetField(SetField(SetField(body, Line("total", <<>>, total)),
                       Line("answered", <<>>, answered)),
              Line("remaining", <<>>, remaining))

CounterDocuments ==
  {CounterDocument(t, a, r, b) :
     t \in MetaTotals, a \in MetaAnswered, r \in MetaRemaining, b \in BOOLEAN}

Priorities == {"urgent", "high", "normal", "low"}

\* a valid document with this plan id, priority and creation time
PriorityDocument(id, priority, created) ==
  SetField(SetField(SetField(BaseDocument, Line("id", id, 0)),
                    Line("priority", <<priority>>, 0)),
           Line("created_at", <<>>, created))

\* documents decode rejects, and the document without decisions
MalformedDocuments ==
  {DropField(BaseDocument, f) : f \in RequiredFields} \cup {NoSections(BaseDocument)}

OtherFile == <<"other", ".md">>
ThirdFile == <<"third", ".md">>

(* ------------------------------- state --------------------------------- *)

VARIABLES
  fs,     \* the queue directory: path -> content, path = <<directory, file name>>
  cache,  \* QueueManager.cache: file path -> plan
  now,    \* the wall clock
  pc,     \* where each caller is in its call
  op,     \* the call each caller made last
  loc,    \* the locals of the call
  ret,    \* what the last call returned: Null or Some(plan)
  mtimes,       \* stat(path).mtimeMs of every file
  knownFiles,   \* QueueWatcher.knownFiles: file name -> mtime
  pollInterval, \* QueueWatcher.pollInterval (and fsWatcher) is set
  timers,       \* how many interval timers (and fs.watch handles) are alive
  isReady,      \* QueueWatcher.isReady
  emitted,      \* the events the watcher emitted in its last start or scan
  readyCount,   \* how often 'ready' has been emitted
  reading,      \* handleFileChange calls that wait for their readFile
  awaiting,     \* files created since the watcher last emitted an event for their name
  listed,       \* what the last getPending() returned
  customInputStates, \* SessionStore.customInputStates: user id -> state
  calls,        \* the calls made on the session store, with their results
  update,       \* the Telegram update the bot handled last
  announced,    \* the file names whose last watcher event is plan:added or plan:updated
  debounce      \* how many setTimeout callbacks of the fs.watch listener are pending

vars == <<fs, cache, now, pc, op, loc, ret,
          mtimes, knownFiles, pollInterval, timers, isReady, emitted, readyCount, reading,
          awaiting, listed, customInputStates, calls, update, announced, debounce>>

\* the state of the bot: its session store and the update it handled last
bvars == <<customInputStates, calls, update>>

\* the state of the watcher, of the manager's event handlers and of its queries,
\* and of the bot
wvars == <<knownFiles, pollInterval, timers, isReady, emitted, readyCount, reading, awaiting,
           listed, bvars, announced, debounce>>

Procs == {"p1", "p2"}

PendingPath(name) == <<"pending", name>>
CompletedPath(name) == <<"completed", name>>
NotifyPath(name) == <<"notify", name>>

\* a file name that also carries the time of the write
NotificationNameStamped(notifySession, planId) ==
  SubSeq(notifySession, 1, IF Len(notifySession) < 9 THEN Len(notifySession) ELSE 9)
    \o <<"-">> \o planId \o <<"-", now, ".md">>

\* writeNotification: the file name, from the first 12 characters of the
\* base64url text of the session (9 bytes) and the plan id
NotificationName(notifySession, planId) ==
  SubSeq(notifySession, 1, IF Len(notifySession) < 9 THEN Len(notifySession) ELSE 9)
    \o <<"-">> \o planId \o <<".md">>

\* getTempPath that gives the target itself: the content is written in place
getTempPathInPlace(path, p) == path

\* getTempPath: a fresh dot-file next to the target
getTempPath(path, p) == <<path[1], <<".tmp-", p>>>>

Exists(path) == path \in DOMAIN fs
WriteFile(f, path, content) ==
  [q \in DOMAIN f \cup {path} |-> IF q = path THEN content ELSE f[q]]
RemoveFile(f, path) == [q \in DOMAIN f \ {path} |-> f[q]]
\* a write sets the modification time
Touch(m, path, t) == [q \in DOMAIN m \cup {path} |-> IF q = path THEN t ELSE m[q]]
RenameFile(f, from, to) ==
  IF from = to THEN f ELSE RemoveFile(WriteFile(f, to, f[from]), from)

CacheSet(c, path, plan) ==
  [q \in DOMAIN c \cup {path} |-> IF q = path THEN plan ELSE c[q]]
CacheDelete(c, path) == [q \in DOMAIN c \ {path} |-> c[q]]

\* getPlan that returns a cached plan whatever its id
getPlanAnyId(planId) ==
  IF DOMAIN cache = {} THEN Null ELSE Some(cache[CHOOSE q \in DOMAIN cache : TRUE])

\* QueueManager.getPlan: search of the cache by id
getPlan(planId) ==
  LET m == {q \in DOMAIN cache : cache[q].frontmatter.id = planId}
  IN IF m = {} THEN Null ELSE Some(cache[CHOOSE q \in m : TRUE])

NoOp == [answer |-> <<>>, decisionId |-> <<>>, planId |-> <<>>, kind |-> "none"]
NoLoc == [content |-> <<>>, filePath |-> <<>>, parsed |-> Null, plan |-> Null,
          target |-> <<>>, after |-> "", result |-> Null]

\* QueueManager.refresh over a freshly written pending directory
InitialCache(f) ==
  LET ok == {q \in DOMAIN f :
               /\ q[1] = "pending"
               /\ parseDecisionFile(f[q], q, 1) # Null
               /\ isValidDecisionFile(parseDecisionFile(f[q], q, 1)[1])}
  IN [q \in ok |-> parseDecisionFile(f[q], q, 1)[1]]

NoUpdate == [from |-> Null, ran |-> "start"]

\* new SessionStore(): no custom input state; no update handled yet
SessionInit ==
  /\ customInputStates = <<>>
  /\ calls = <<>>
  /\ update = NoUpdate

\* a QueueWatcher after its constructor, no handler call in flight, and a new bot
WatcherInit ==
  /\ knownFiles = <<>>
  /\ pollInterval = FALSE
  /\ timers = 0
  /\ isReady = FALSE
  /\ emitted = <<>>
  /\ readyCount = 0
  /\ reading = {}
  /\ awaiting = {}
  /\ listed = <<>>
  /\ SessionInit
  /\ announced = {}
  /\ debounce = 0

Init ==
  /\ \E ids \in IdPairs, shape \in Shapes, notify \in BOOLEAN :
       fs = (PendingPath(TheFile) :> Document(ids, shape, notify))
  /\ cache = InitialCache(fs)
  /\ now = 1
  /\ pc = [p \in Procs |-> "idle"]
  /\ op = [p \in Procs |-> NoOp]
  /\ loc = [p \in Procs |-> NoLoc]
  /\ ret = [p \in Procs |-> Null]
  /\ mtimes = [q \in DOMAIN fs |-> 1]
  /\ WatcherInit

(* ------------------------------ actions -------------------------------- *)

\* the clock advances between any two steps
Tick ==
  /\ now < MaxTime
  /\ now' = now + 1
  /\ UNCHANGED <<fs, cache, pc, op, loc, ret, mtimes, wvars>>

\* a call that returns at once
ReturnNow(p, o, result) ==
  /\ pc' = [pc EXCEPT ![p] = "idle"]
  /\ op' = [op EXCEPT ![p] = o]
  /\ loc' = [loc EXCEPT ![p] = NoLoc]
  /\ ret' = [ret EXCEPT ![p] = result]

\* answerDecision / skipDecision up to the call of updateDecision: what it
\* does to the caller
EnterUpdate(p, o) ==
  LET plan == getPlan(o.planId) IN
  /\ pc[p] = "idle"
  /\ IF plan = Null
     THEN ReturnNow(p, o, Null)
     ELSE /\ pc' = [pc EXCEPT ![p] = "ud_read"]
          /\ op' = [op EXCEPT ![p] = o]
          /\ loc' = [loc EXCEPT ![p] = [NoLoc EXCEPT !.filePath = plan[1].filePath]]
          /\ ret' = [ret EXCEPT ![p] = Null]

\* answerDecision / skipDecision up to the call of updateDecision
StartUpdate(p, o) ==
  /\ EnterUpdate(p, o)
  /\ UNCHANGED <<fs, cache, now, mtimes, wvars>>

AnswerDecision(p, planId, decisionId, answer) ==
  StartUpdate(p, [answer |-> answer, decisionId |-> decisionId, planId |-> planId,
                  kind |-> "answer"])

SkipDecision(p, planId, decisionId) ==
  StartUpdate(p, [answer |-> SkipSentinel, decisionId |-> decisionId, planId |-> planId,
                  kind |-> "skip"])

\* updateDecision: readFile resolves, the new content is computed and
\* atomicWrite is entered; a missing or undecodable file returns null
UpdateRead(p) ==
  /\ pc[p] = "ud_read"
  /\ LET path == loc[p].filePath
         parsed == IF Exists(path) THEN parseDecisionFile(fs[path], path, now) ELSE Null
     IN IF parsed = Null
        THEN /\ pc' = [pc EXCEPT ![p] = "idle"]
             /\ ret' = [ret EXCEPT ![p] = Null]
             /\ loc' = loc
        ELSE /\ pc' = [pc EXCEPT ![p] = "aw_write"]
             /\ loc' = [loc EXCEPT ![p].parsed = parsed,
                                   ![p].content = updateDecisionContent(
                                      fs[path], parsed[1], op[p].decisionId, op[p].answer, now),
                                   ![p].target = path,
                                   ![p].after = "ud_return"]
             /\ ret' = ret
  /\ UNCHANGED <<fs, cache, now, op, mtimes, wvars>>

\* atomicWrite: writeFile(tempPath, content) has created the temp file and
\* has not written the content yet
AtomicWriteOpen(p) ==
  /\ pc[p] = "aw_write"
  /\ fs' = WriteFile(fs, getTempPath(loc[p].target, p), <<>>)
  /\ mtimes' = Touch(mtimes, getTempPath(loc[p].target, p), now)
  /\ pc' = [pc EXCEPT ![p] = "aw_fill"]
  /\ UNCHANGED <<cache, now, op, loc, ret, wvars>>

\* atomicWrite: writeFile(tempPath, content) resolves
AtomicWriteTemp(p) ==
  /\ pc[p] = "aw_fill"
  /\ fs' = WriteFile(fs, getTempPath(loc[p].target, p), loc[p].content)
  /\ mtimes' = Touch(mtimes, getTempPath(loc[p].target, p), now)
  /\ pc' = [pc EXCEPT ![p] = "aw_rename"]
  /\ UNCHANGED <<cache, now, op, loc, ret, wvars>>

\* atomicWrite: rename(tempPath, filePath)
AtomicWriteRename(p) ==
  /\ pc[p] = "aw_rename"
  /\ fs' = RenameFile(fs, getTempPath(loc[p].target, p), loc[p].target)
  /\ mtimes' = RenameFile(mtimes, getTempPath(loc[p].target, p), loc[p].target)
  /\ pc' = [pc EXCEPT ![p] = loc[p].after]
  /\ UNCHANGED <<cache, now, op, loc, ret, wvars>>

\* updateDecision returns the decode of what it wrote; answerDecision /
\* skipDecision put it in the cache and complete the plan if it says completed
UpdateReturn(p) ==
  /\ pc[p] = "ud_return"
  /\ LET updated == parseDecisionFile(loc[p].content, loc[p].filePath, now) IN
     IF updated = Null
     THEN /\ pc' = [pc EXCEPT ![p] = "idle"]
          /\ ret' = [ret EXCEPT ![p] = Null]
          /\ UNCHANGED <<cache, loc>>
     ELSE /\ cache' = CacheSet(cache, loc[p].filePath, updated[1])
          /\ IF updated[1].frontmatter.status = "completed"
             THEN /\ pc' = [pc EXCEPT ![p] = "cp_read"]
                  /\ loc' = [loc EXCEPT ![p].plan = updated, ![p].result = updated]
                  /\ ret' = ret
             ELSE /\ pc' = [pc EXCEPT ![p] = "idle"]
                  /\ ret' = [ret EXCEPT ![p] = updated]
                  /\ loc' = loc
  /\ UNCHANGED <<fs, now, op, mtimes, wvars>>

\* submitPlan up to the call of handlePlanCompleted: what it does to the caller
EnterSubmit(p, planId) ==
  LET plan == getPlan(planId)
      o == [answer |-> <<>>, decisionId |-> <<>>, planId |-> planId, kind |-> "submit"]
  IN
  /\ pc[p] = "idle"
  /\ IF plan = Null \/ plan[1].frontmatter.status # "ready"
     THEN ReturnNow(p, o, Null)
     ELSE /\ pc' = [pc EXCEPT ![p] = "cp_read"]
          /\ op' = [op EXCEPT ![p] = o]
          /\ loc' = [loc EXCEPT ![p] = [NoLoc EXCEPT !.filePath = plan[1].filePath,
                                                     !.plan = plan]]
          /\ ret' = [ret EXCEPT ![p] = Null]

\* submitPlan: valid only for a cached plan whose status is ready
SubmitPlan(p, planId) ==
  /\ EnterSubmit(p, planId)
  /\ UNCHANGED <<fs, cache, now, mtimes, wvars>>

\* handlePlanCompleted after completePlan has returned: the cache entry is
\* deleted and the notification, if the plan asks for one, is written
AfterCompletePlan(p, file) ==
  LET plan == loc[p].plan[1]
      result == IF op[p].kind = "submit" THEN file ELSE loc[p].result
  IN
  /\ cache' = CacheDelete(cache, plan.filePath)
  /\ IF plan.frontmatter.notifySession # <<>>
     THEN /\ pc' = [pc EXCEPT ![p] = "aw_write"]
          /\ loc' = [loc EXCEPT
                       ![p].content = NotificationContent(plan, now),
                       ![p].target = NotifyPath(NotificationName(
                                       plan.frontmatter.notifySession, plan.frontmatter.id)),
                       ![p].after = "hp_return",
                       ![p].result = result]
     ELSE /\ pc' = [pc EXCEPT ![p] = "hp_return"]
          /\ loc' = [loc EXCEPT ![p].result = result]

\* completePlan: readFile resolves, the completed content is computed and
\* atomicWrite is entered; a missing file makes completePlan return null
CompleteRead(p) ==
  /\ pc[p] = "cp_read"
  /\ LET path == loc[p].plan[1].filePath IN
     IF Exists(path)
     THEN /\ pc' = [pc EXCEPT ![p] = "aw_write"]
          /\ loc' = [loc EXCEPT ![p].content = completePlanContent(fs[path], now),
                                ![p].target = path,
                                ![p].after = "cp_move"]
          /\ cache' = cache
     ELSE AfterCompletePlan(p, Null)
  /\ UNCHANGED <<fs, now, op, ret, mtimes, wvars>>

\* completePlan: rename(filePath, completedDir/fileName)
CompleteMove(p) ==
  /\ pc[p] = "cp_move"
  /\ LET path == loc[p].plan[1].filePath IN
     IF Exists(path)
     THEN /\ fs' = RenameFile(fs, path, CompletedPath(path[2]))
          /\ mtimes' = RenameFile(mtimes, path, CompletedPath(path[2]))
          /\ pc' = [pc EXCEPT ![p] = "cp_readback"]
          /\ UNCHANGED <<cache, loc>>
     ELSE /\ AfterCompletePlan(p, Null)
          /\ UNCHANGED <<fs, mtimes>>
  /\ UNCHANGED <<now, op, ret, wvars>>

\* completePlan reads the moved file back and returns its decode
CompleteReadBack(p) ==
  /\ pc[p] = "cp_readback"
  /\ LET path == CompletedPath(loc[p].plan[1].filePath[2]) IN
     AfterCompletePlan(p, IF Exists(path) THEN parseDecisionFile(fs[path], path, now) ELSE Null)
  /\ UNCHANGED <<fs, now, op, ret, mtimes, wvars>>

\* handlePlanCompleted returns and so does the call that ran it
CompleteReturn(p) ==
  /\ pc[p] = "hp_return"
  /\ pc' = [pc EXCEPT ![p] = "idle"]
  /\ ret' = [ret EXCEPT ![p] = loc[p].result]
  /\ UNCHANGED <<fs, cache, now, op, loc, mtimes, wvars>>

Step(p) ==
  \/ UpdateRead(p)
  \/ AtomicWriteOpen(p)
  \/ AtomicWriteTemp(p)
  \/ AtomicWriteRename(p)
  \/ UpdateReturn(p)
  \/ CompleteRead(p)
  \/ CompleteMove(p)
  \/ CompleteReadBack(p)
  \/ CompleteReturn(p)

Call(p) ==
  \/ \E planId \in PlanIds, d \in DecisionIds, a \in Answers : AnswerDecision(p, planId, d, a)
  \/ \E planId \in PlanIds, d \in DecisionIds : SkipDecision(p, planId, d)
  \/ \E planId \in PlanIds : SubmitPlan(p, planId)

\* one caller: every call is awaited before the next is made
Next ==
  \/ Tick
  \/ Call("p1")
  \/ Step("p1")

Spec == Init /\ [][Next]_vars

\* two callers, one AnswerDecision call each, their steps interleaved at
\* every await (calls from two button taps that overlap)
OverlappingCall(p) ==
  /\ op[p] = NoOp
  /\ \E d \in DecisionIds : AnswerDecision(p, ThePlanId, d, <<"x">>)

ConcNext ==
  \E p \in Procs :
    \/ OverlappingCall(p)
    \/ UpdateRead(p)
    \/ AtomicWriteOpen(p)
    \/ AtomicWriteTemp(p)
    \/ AtomicWriteRename(p)
    \/ UpdateReturn(p)

ConcSpec == Init /\ [][ConcNext]_vars

(* --------------------- loading and listing the queue ------------------- *)

PathsIn(f, dir) == {q \in DOMAIN f : q[1] = dir}

\* the file names the directory scan takes up: *.md that are not dot-files
IsPlanFileName(name) == name[Len(name)] = ".md" /\ name[1] \notin {".tmp-", ".md"}

\* handleFileChange that never stores what it has read
handleFileChangeDropped(c, f, path, t) == c

\* handleFileChange(filePath) on files f and cache c: the cache it leaves. A
\* file that cannot be read is dropped from the cache, a document that does
\* not decode or has no decisions leaves the cache as it is
handleFileChange(c, f, path, t) ==
  IF path \notin DOMAIN f THEN CacheDelete(c, path)
  ELSE LET parsed == parseDecisionFile(f[path], path, t) IN
       IF parsed # Null /\ isValidDecisionFile(parsed[1])
       THEN CacheSet(c, path, parsed[1])
       ELSE c

\* refresh(): readdir, the filter on the names, cache.clear()
Refresh(p) ==
  /\ pc[p] = "idle"
  /\ reading = {}
  /\ pc' = [pc EXCEPT ![p] = "rf_load"]
  /\ op' = [op EXCEPT ![p] = [NoOp EXCEPT !.kind = "refresh"]]
  /\ loc' = [loc EXCEPT ![p] = NoLoc]
  /\ ret' = [ret EXCEPT ![p] = Null]
  /\ cache' = <<>>
  /\ reading' = {q \in PathsIn(fs, "pending") : IsPlanFileName(q[2])}
  /\ UNCHANGED <<bvars, announced, debounce, fs, now, mtimes, knownFiles, pollInterval, timers, isReady, emitted,
                 readyCount, awaiting, listed>>

\* refresh(): await this.handleFileChange(filePath) for one more file
RefreshLoad(p) ==
  /\ pc[p] = "rf_load"
  /\ \E path \in reading :
       /\ cache' = handleFileChange(cache, fs, path, now)
       /\ reading' = reading \ {path}
  /\ UNCHANGED <<bvars, announced, debounce, fs, now, pc, op, loc, ret, mtimes, knownFiles, pollInterval, timers,
                 isReady, emitted, readyCount, awaiting, listed>>

\* refresh() returns
RefreshReturn(p) ==
  /\ pc[p] = "rf_load"
  /\ reading = {}
  /\ pc' = [pc EXCEPT ![p] = "idle"]
  /\ UNCHANGED <<fs, cache, now, op, loc, ret, mtimes, wvars>>

\* priorityOrder[priority] ?? 2
priorityOrder(priority) ==
  CASE priority = "urgent" -> 0
    [] priority = "high" -> 1
    [] priority = "normal" -> 2
    [] priority = "low" -> 3
    [] OTHER -> 2

\* comparator that forgets the creation time
ComparePriorityOnly(a, b) ==
  priorityOrder(a.frontmatter.priority) - priorityOrder(b.frontmatter.priority)

\* the comparator of getPending: by priority, then by creation time
ComparePlans(a, b) ==
  LET aPriority == priorityOrder(a.frontmatter.priority)
      bPriority == priorityOrder(b.frontmatter.priority)
  IN IF aPriority # bPriority THEN aPriority - bPriority
     ELSE a.frontmatter.createdAt - b.frontmatter.createdAt

\* Array.prototype.sort (stable): plan goes behind every element that does
\* not compare greater
RECURSIVE InsertSorted(_, _)
InsertSorted(plan, sorted) ==
  IF sorted = <<>> THEN <<plan>>
  ELSE IF ComparePlans(Head(sorted), plan) <= 0
       THEN <<Head(sorted)>> \o InsertSorted(plan, Tail(sorted))
       ELSE <<plan>> \o sorted

RECURSIVE SortPlans(_)
SortPlans(plans) ==
  IF plans = <<>> THEN <<>>
  ELSE InsertSorted(plans[Len(plans)], SortPlans(SubSeq(plans, 1, Len(plans) - 1)))

\* the orders in which a Map with these keys can enumerate them
Enumerations(keys) ==
  {e \in [1..Cardinality(keys) -> keys] : \A i, j \in DOMAIN e : i # j => e[i] # e[j]}

\* getPending(): Array.from(this.cache.values()), sorted
getPending(order) == SortPlans([i \in DOMAIN order |-> cache[order[i]]])

GetPending(p) ==
  /\ pc[p] = "idle"
  /\ \E order \in Enumerations(DOMAIN cache) : listed' = getPending(order)
  /\ ReturnNow(p, [NoOp EXCEPT !.kind = "getPending"], Null)
  /\ UNCHANGED <<bvars, announced, debounce, fs, cache, now, mtimes, knownFiles, pollInterval, timers, isReady,
                 emitted, readyCount, reading, awaiting>>

\* the pending directory of a manager that has been constructed: up to three
\* documents, written by the producer before the manager is initialised
LoadInit ==
  /\ \E first \in CounterDocuments,
        second \in {<<>>} \cup MalformedDocuments
                   \cup {PriorityDocument(<<"q">>, pr, t) : pr \in Priorities, t \in {1, 2}},
        third \in {<<>>, PriorityDocument(<<"r">>, "normal", 1),
                   PriorityDocument(<<"r">>, "urgent", 2)} :
       fs = [q \in {PendingPath(TheFile)}
                    \cup (IF second = <<>> THEN {} ELSE {PendingPath(OtherFile)})
                    \cup (IF third = <<>> THEN {} ELSE {PendingPath(ThirdFile)}) |->
               IF q = PendingPath(TheFile) THEN first
               ELSE IF q = PendingPath(OtherFile) THEN second ELSE third]
  /\ cache = <<>>
  /\ now = 1
  /\ pc = [p \in Procs |-> "idle"]
  /\ op = [p \in Procs |-> NoOp]
  /\ loc = [p \in Procs |-> NoLoc]
  /\ ret = [p \in Procs |-> Null]
  /\ mtimes = [q \in DOMAIN fs |-> 1]
  /\ WatcherInit

LoadNext ==
  \/ Refresh("p1")
  \/ RefreshLoad("p1")
  \/ RefreshReturn("p1")
  \/ GetPending("p1")

LoadSpec == LoadInit /\ [][LoadNext]_vars

(* ------------------------ a relocation that fails --------------------- *)

\* completePlan: rename(filePath, completedDir/fileName) rejects (the archive
\* is on another volume, or may not be written); the catch returns no file
\* and handlePlanCompleted goes on
CompleteMoveFails(p) ==
  /\ pc[p] = "cp_move"
  /\ AfterCompletePlan(p, Null)
  /\ UNCHANGED <<fs, now, op, ret, mtimes, wvars>>

\* an earlier plan, completed and archived under the file name of the plan
\* that is pending now
ArchivedDocument == completePlanContent(PriorityDocument(<<"q">>, "normal", 1), 1)

\* the queue directory after construction, the archive empty or holding the
\* earlier plan
FailingInit ==
  /\ \E ids \in IdPairs, shape \in Shapes, notify \in BOOLEAN, archived \in BOOLEAN :
       fs = [q \in {PendingPath(TheFile)}
                    \cup (IF archived THEN {CompletedPath(TheFile)} ELSE {}) |->
               IF q = PendingPath(TheFile) THEN Document(ids, shape, notify)
               ELSE ArchivedDocument]
  /\ cache = InitialCache(fs)
  /\ now = 1
  /\ pc = [p \in Procs |-> "idle"]
  /\ op = [p \in Procs |-> NoOp]
  /\ loc = [p \in Procs |-> NoLoc]
  /\ ret = [p \in Procs |-> Null]
  /\ mtimes = [q \in DOMAIN fs |-> 1]
  /\ WatcherInit

\* one caller whose relocations may fail
FailingNext ==
  \/ Call("p1")
  \/ Step("p1")
  \/ CompleteMoveFails("p1")

FailingSpec == FailingInit /\ [][FailingNext]_vars

(* --------------------------- notifications ----------------------------- *)

NotifySessions == {<<"n", "s">>, <<"m">>}

\* the document of a plan that asks for a notification
NotifiedDocument(id, session) ==
  SetField(SetField(Document(<<<<"a">>, <<"c">>>>, "full", TRUE), Line("id", id, 0)),
           Line("notify_session", session, 0))

\* that plan with decision c answered
NotifiedPlan(id, session) ==
  parseDecisionFile(
    updateDecisionInBody(NotifiedDocument(id, session), <<"c">>, <<"x">>, "answered", 1),
    PendingPath(TheFile), 1)[1]

\* writeNotification called for a plan, up to its atomicWrite
WriteNotification(p, plan) ==
  /\ pc[p] = "idle"
  /\ pc' = [pc EXCEPT ![p] = "aw_write"]
  /\ op' = [op EXCEPT ![p] = [NoOp EXCEPT !.planId = plan.frontmatter.id,
                                          !.kind = "notify"]]
  /\ loc' = [loc EXCEPT ![p] =
               [NoLoc EXCEPT
                  !.content = NotificationContent(plan, now),
                  !.target = NotifyPath(NotificationName(plan.frontmatter.notifySession,
                                                         plan.frontmatter.id)),
                  !.after = "wn_return"]]
  /\ ret' = [ret EXCEPT ![p] = Null]
  /\ UNCHANGED <<fs, cache, now, mtimes, wvars>>

\* writeNotification returns the path it wrote
WriteNotificationReturn(p) ==
  /\ pc[p] = "wn_return"
  /\ pc' = [pc EXCEPT ![p] = "idle"]
  /\ ret' = [ret EXCEPT ![p] = Some(loc[p].target)]
  /\ UNCHANGED <<fs, cache, now, op, loc, mtimes, wvars>>

\* an empty queue directory
NotifyInit ==
  /\ fs = <<>>
  /\ cache = <<>>
  /\ now = 1
  /\ pc = [p \in Procs |-> "idle"]
  /\ op = [p \in Procs |-> NoOp]
  /\ loc = [p \in Procs |-> NoLoc]
  /\ ret = [p \in Procs |-> Null]
  /\ mtimes = <<>>
  /\ WatcherInit

\* the notifications of one plan for two sessions, written again and again
\* by two callers
NotifyNext ==
  \/ Tick
  \/ \E p \in Procs :
       \/ \E session \in NotifySessions :
            WriteNotification(p, NotifiedPlan(ThePlanId, session))
       \/ AtomicWriteOpen(p)
       \/ AtomicWriteTemp(p)
       \/ AtomicWriteRename(p)
       \/ WriteNotificationReturn(p)

NotifySpec == NotifyInit /\ [][NotifyNext]_vars

(* ------------------------- stopping and restarting --------------------- *)

\* the process dies in the middle of a call: the call never returns, the
\* cache is gone, the files stay as they are. Only the first process of a
\* run dies this way
Crash ==
  /\ pc["p1"] # "idle"
  /\ op["p2"] = NoOp
  /\ pc' = [p \in Procs |-> "idle"]
  /\ loc' = [p \in Procs |-> NoLoc]
  /\ ret' = [p \in Procs |-> Null]
  /\ op' = [op EXCEPT !["p1"] = NoOp]
  /\ cache' = <<>>
  /\ reading' = {}
  /\ UNCHANGED <<bvars, announced, debounce, fs, now, mtimes, knownFiles, pollInterval, timers, isReady, emitted,
                 readyCount, awaiting, listed>>

\* stop() followed by init() of a new manager on the same directory: the
\* cache is cleared and refresh() begins; no call is in flight
Restart ==
  /\ \A p \in Procs : pc[p] = "idle"
  /\ Refresh("p2")

\* one caller, whose calls are made while no refresh runs, and restarts
RestartNext ==
  \/ pc["p2"] = "idle" /\ Call("p1")
  \/ Step("p1")
  \/ Crash
  \/ Restart
  \/ RefreshLoad("p2")
  \/ RefreshReturn("p2")

RestartSpec == Init /\ [][RestartNext]_vars

(* ------------------------------ the watcher ---------------------------- *)

\* producer steps and watcher starts in one run
MaxProducerSteps == 2
MaxStarts == 2

\* a name the watcher's filter rejects although it ends in .md
DraftFile == <<".tmp-", "x", ".md">>

\* the order in which readdir lists the names
DirectoryOrder == <<TheFile, OtherFile, DraftFile>>

\* isValidMdFile: *.md, no dot-file, no '.tmp-' in the name
isValidMdFile(fileName) ==
  /\ fileName[Len(fileName)] = ".md"
  /\ fileName[1] \notin {".tmp-", ".md"}
  /\ \A i \in 1..Len(fileName) : fileName[i] # ".tmp-"

\* scanDirectory, first part: currentFiles, the mtime of every listed name
\* that passes the filter
CurrentFiles(f, m) ==
  [fileName \in {q[2] : q \in {r \in PathsIn(f, "pending") : isValidMdFile(r[2])}} |->
     m[PendingPath(fileName)]]

WatcherEvent(event, fileName) == [event |-> event, fileName |-> fileName]

\* every emit of a plan event is followed by an emit of 'change' with the
\* same payload
WithChange(events) ==
  [i \in 1..(2 * Len(events)) |->
     IF i % 2 = 1 THEN events[(i + 1) \div 2]
     ELSE WatcherEvent("change", events[i \div 2].fileName)]

\* scanDirectory without its loop over the known files
ScanEventsNoRemoved(known, current) ==
  LET Changed(n) == n \in DOMAIN current /\ (n \notin DOMAIN known \/ known[n] # current[n])
      changed == SelectSeq(DirectoryOrder, Changed)
  IN WithChange([i \in 1..Len(changed) |->
        WatcherEvent(IF changed[i] \in DOMAIN known THEN "plan:updated" ELSE "plan:added",
                     changed[i])])

\* scanDirectory, second part: the events in the order they are emitted:
\* added / updated for the current files, then removed for the known ones
ScanEvents(known, current) ==
  LET Changed(n) == n \in DOMAIN current /\ (n \notin DOMAIN known \/ known[n] # current[n])
      Gone(n) == n \in DOMAIN known /\ n \notin DOMAIN current
      changed == SelectSeq(DirectoryOrder, Changed)
      gone == SelectSeq(DirectoryOrder, Gone)
  IN WithChange([i \in 1..Len(changed) |->
        WatcherEvent(IF changed[i] \in DOMAIN known THEN "plan:updated" ELSE "plan:added",
                     changed[i])]
     \o [i \in 1..Len(gone) |-> WatcherEvent("plan:removed", gone[i])])

EventNames(events, kinds) ==
  {events[i].fileName : i \in {j \in 1..Len(events) : events[j].event \in kinds}}

\* scanDirectory that does not keep the files it has seen
ScanDirectoryForgetful ==
  LET current == CurrentFiles(fs, mtimes)
      events == ScanEvents(knownFiles, current)
  IN /\ emitted' = events
     /\ knownFiles' = knownFiles
     /\ cache' = [q \in DOMAIN cache \
                         {PendingPath(n) : n \in EventNames(events, {"plan:removed"})} |->
                    cache[q]]
     /\ reading' = reading \cup
                     {PendingPath(n) : n \in EventNames(events, {"plan:added", "plan:updated"})}
     /\ awaiting' = awaiting \ EventNames(events, {"plan:added"})
     /\ announced' = (announced \cup EventNames(events, {"plan:added", "plan:updated"}))
                       \ EventNames(events, {"plan:removed"})

\* scanDirectory with the manager's handlers subscribed: plan:removed
\* deletes the cache entry at once, plan:added / plan:updated start a
\* handleFileChange that waits for its readFile
ScanDirectory ==
  LET current == CurrentFiles(fs, mtimes)
      events == ScanEvents(knownFiles, current)
  IN /\ emitted' = events
     /\ knownFiles' = current
     /\ cache' = [q \in DOMAIN cache \
                         {PendingPath(n) : n \in EventNames(events, {"plan:removed"})} |->
                    cache[q]]
     /\ reading' = reading \cup
                     {PendingPath(n) : n \in EventNames(events, {"plan:added", "plan:updated"})}
     /\ awaiting' = awaiting \ EventNames(events, {"plan:added"})
     /\ announced' = (announced \cup EventNames(events, {"plan:added", "plan:updated"}))
                       \ EventNames(events, {"plan:removed"})

\* QueueWatcher.start()
WatcherStart ==
  /\ readyCount < MaxStarts
  /\ ScanDirectory
  /\ pollInterval' = TRUE
  /\ timers' = timers + 1
  /\ isReady' = TRUE
  /\ readyCount' = readyCount + 1
  /\ UNCHANGED <<bvars, debounce, fs, now, pc, op, loc, ret, mtimes, listed>>

\* QueueWatcher.stop()
WatcherStop ==
  /\ IF pollInterval
     THEN pollInterval' = FALSE /\ timers' = timers - 1
     ELSE UNCHANGED <<pollInterval, timers>>
  /\ isReady' = FALSE
  /\ UNCHANGED <<bvars, announced, debounce, fs, cache, now, pc, op, loc, ret, mtimes, knownFiles, emitted, readyCount,
                 reading, awaiting, listed>>

\* the interval timer fires: scanDirectory()
PollScan ==
  /\ timers > 0
  /\ ScanDirectory
  /\ UNCHANGED <<bvars, debounce, fs, now, pc, op, loc, ret, mtimes, pollInterval, timers,
                 isReady, readyCount, listed>>

\* a handleFileChange started by an event gets its file read
HandleFileChange(path) ==
  /\ path \in reading
  /\ cache' = handleFileChange(cache, fs, path, now)
  /\ reading' = reading \ {path}
  /\ UNCHANGED <<bvars, announced, debounce, fs, now, pc, op, loc, ret, mtimes, knownFiles, pollInterval, timers,
                 isReady, emitted, readyCount, awaiting, listed>>

\* the documents the producer writes while the watcher runs
WatchedDocuments == {BaseDocument, DropField(BaseDocument, "status")}

\* the producer writes a document into the pending directory, at a time
\* later than every earlier write
ProducerWrite(fileName, content) ==
  /\ now <= MaxProducerSteps
  /\ now' = now + 1
  /\ fs' = WriteFile(fs, PendingPath(fileName), content)
  /\ mtimes' = Touch(mtimes, PendingPath(fileName), now + 1)
  /\ awaiting' = IF PendingPath(fileName) \in DOMAIN fs THEN awaiting
                 ELSE awaiting \cup {fileName}
  /\ UNCHANGED <<bvars, announced, debounce, cache, pc, op, loc, ret, knownFiles, pollInterval, timers, isReady,
                 emitted, readyCount, reading, listed>>

\* the producer takes a document out of the pending directory
ProducerRemove(fileName) ==
  /\ now <= MaxProducerSteps
  /\ PendingPath(fileName) \in DOMAIN fs
  /\ now' = now + 1
  /\ fs' = RemoveFile(fs, PendingPath(fileName))
  /\ mtimes' = RemoveFile(mtimes, PendingPath(fileName))
  /\ awaiting' = awaiting \ {fileName}
  /\ UNCHANGED <<bvars, announced, debounce, cache, pc, op, loc, ret, knownFiles, pollInterval, timers, isReady,
                 emitted, readyCount, reading, listed>>

\* a manager after refresh(), its watcher constructed and subscribed to
WatchInit ==
  /\ \E present \in BOOLEAN :
       fs = [q \in (IF present THEN {PendingPath(TheFile)} ELSE {}) |-> BaseDocument]
  /\ cache = InitialCache(fs)
  /\ now = 1
  /\ pc = [p \in Procs |-> "idle"]
  /\ op = [p \in Procs |-> NoOp]
  /\ loc = [p \in Procs |-> NoLoc]
  /\ ret = [p \in Procs |-> Null]
  /\ mtimes = [q \in DOMAIN fs |-> 1]
  /\ WatcherInit

WatchNext ==
  \/ WatcherStart
  \/ WatcherStop
  \/ PollScan
  \/ \E path \in reading : HandleFileChange(path)
  \/ \E i \in 1..Len(DirectoryOrder), content \in WatchedDocuments :
       ProducerWrite(DirectoryOrder[i], content)
  \/ \E i \in 1..Len(DirectoryOrder) : ProducerRemove(DirectoryOrder[i])

WatchSpec == WatchInit /\ [][WatchNext]_vars

\* the readFile of a pending handleFileChange returns: the steps of
\* HandleFileChange(path), told by what they do to the pending reads
FileRead(path) == path \in reading /\ reading' = reading \ {path}

\* the interval timer keeps firing while it is set, and every readFile of a
\* handleFileChange returns
WatchFairness ==
  /\ WF_vars(PollScan)
  /\ \A i \in 1..Len(DirectoryOrder) : WF_reading(FileRead(PendingPath(DirectoryOrder[i])))

\* a manager whose init() has returned: refresh() done, the watcher
\* subscribed to and started once, the handleFileChange calls of its first
\* scan waiting for their reads
ManagedInit ==
  /\ \E present \in BOOLEAN :
       fs = [q \in (IF present THEN {PendingPath(TheFile)} ELSE {}) |-> BaseDocument]
  /\ cache = InitialCache(fs)
  /\ now = 1
  /\ pc = [p \in Procs |-> "idle"]
  /\ op = [p \in Procs |-> NoOp]
  /\ loc = [p \in Procs |-> NoLoc]
  /\ ret = [p \in Procs |-> Null]
  /\ mtimes = [q \in DOMAIN fs |-> 1]
  /\ knownFiles = CurrentFiles(fs, mtimes)
  /\ emitted = ScanEvents(<<>>, CurrentFiles(fs, mtimes))
  /\ reading = DOMAIN fs
  /\ pollInterval = TRUE
  /\ timers = 1
  /\ isReady = TRUE
  /\ readyCount = 1
  /\ awaiting = {}
  /\ listed = <<>>
  /\ SessionInit
  /\ announced = DOMAIN CurrentFiles(fs, mtimes)
  /\ debounce = 0

\* the manager's watcher at work, as long as the manager is not stopped
ManagedNext ==
  \/ PollScan
  \/ \E path \in reading : HandleFileChange(path)
  \/ \E i \in 1..Len(DirectoryOrder), content \in WatchedDocuments :
       ProducerWrite(DirectoryOrder[i], content)
  \/ \E i \in 1..Len(DirectoryOrder) : ProducerRemove(DirectoryOrder[i])

ManagedSpec == ManagedInit /\ [][ManagedNext]_vars /\ WatchFairness

\* a running manager that serves one AnswerDecision call of each caller,
\* one after the other, while the producer removes the plan file and the
\* watcher reports it
RemovalNext ==
  \/ \E p \in Procs : (\A o \in Procs : pc[o] = "idle") /\ OverlappingCall(p)
  \/ \E p \in Procs : UpdateRead(p)
  \/ \E p \in Procs : AtomicWriteOpen(p)
  \/ \E p \in Procs : AtomicWriteTemp(p)
  \/ \E p \in Procs : AtomicWriteRename(p)
  \/ \E p \in Procs : UpdateReturn(p)
  \/ ProducerRemove(TheFile)
  \/ PollScan
  \/ \E path \in reading : HandleFileChange(path)

RemovalSpec == ManagedInit /\ [][RemovalNext]_vars

(* ------------------ file names that carry the temp marker -------------- *)

\* a name that has the marker '.tmp-' after its first character
MarkedFile == <<"plan", ".tmp-", ".md">>

\* a manager before init(): the producer has left files of every kind of
\* name in the pending directory
MarkerInit ==
  /\ \E names \in SUBSET {TheFile, DraftFile, MarkedFile} :
       fs = [q \in {PendingPath(n) : n \in names} |-> BaseDocument]
  /\ cache = <<>>
  /\ now = 1
  /\ pc = [p \in Procs |-> "idle"]
  /\ op = [p \in Procs |-> NoOp]
  /\ loc = [p \in Procs |-> NoLoc]
  /\ ret = [p \in Procs |-> Null]
  /\ mtimes = [q \in DOMAIN fs |-> 1]
  /\ WatcherInit

\* the manager's directory scan and the watcher's scans, while one caller
\* answers a decision and its atomic write has its temp file in the directory
MarkerNext ==
  \/ Refresh("p2")
  \/ RefreshLoad("p2")
  \/ RefreshReturn("p2")
  \/ WatcherStart
  \/ PollScan
  \/ \E path \in reading : pc["p2"] = "idle" /\ HandleFileChange(path)
  \/ OverlappingCall("p1")
  \/ UpdateRead("p1")
  \/ AtomicWriteOpen("p1")
  \/ AtomicWriteTemp("p1")
  \/ AtomicWriteRename("p1")
  \/ UpdateReturn("p1")

MarkerSpec == MarkerInit /\ [][MarkerNext]_vars

(* --------------------------- decoding twice ---------------------------- *)

\* documents with and without the times decode fills in
DecodedDocuments ==
  CounterDocuments \cup {DropField(BaseDocument, f) : f \in {"created_at", "updated_at", "status"}}
                   \cup {DropField(DropField(BaseDocument, "created_at"), "updated_at")}

\* parseDecisionFile(content, filePath) called by p on the pending document
Decode(p) ==
  /\ pc[p] = "idle"
  /\ op[p] = NoOp
  /\ op' = [op EXCEPT ![p] = [NoOp EXCEPT !.kind = "decode"]]
  /\ ret' = [ret EXCEPT ![p] = parseDecisionFile(fs[PendingPath(TheFile)],
                                                PendingPath(TheFile), now)]
  /\ UNCHANGED <<fs, cache, now, pc, loc, mtimes, wvars>>

DecodeInit ==
  /\ \E content \in DecodedDocuments : fs = (PendingPath(TheFile) :> content)
  /\ cache = <<>>
  /\ now = 1
  /\ pc = [p \in Procs |-> "idle"]
  /\ op = [p \in Procs |-> NoOp]
  /\ loc = [p \in Procs |-> NoLoc]
  /\ ret = [p \in Procs |-> Null]
  /\ mtimes = [q \in DOMAIN fs |-> 1]
  /\ WatcherInit

\* two decodes of one document, at any two times
DecodeNext ==
  \/ Tick
  \/ \E p \in Procs : Decode(p)

DecodeSpec == DecodeInit /\ [][DecodeNext]_vars

(* ------------------- a file system that rejects calls ------------------ *)

\* updateDecision without its try / catch: the rejection reaches the caller
updateDecisionThrows(p) ==
  /\ pc' = [pc EXCEPT ![p] = "thrown"]
  /\ ret' = ret

\* updateDecision, catch: the error is logged and null is returned
updateDecisionCatch(p) ==
  /\ pc' = [pc EXCEPT ![p] = "idle"]
  /\ ret' = [ret EXCEPT ![p] = Null]

\* the readFile of updateDecision, or the writeFile or the rename of its
\* atomicWrite, rejects
UpdateFails(p) ==
  /\ pc[p] \in {"ud_read", "aw_write", "aw_fill", "aw_rename"}
  /\ op[p].kind \in {"answer", "skip"}
  /\ updateDecisionCatch(p)
  /\ loc' = [loc EXCEPT ![p].after = "failed"]
  /\ UNCHANGED <<fs, cache, now, op, mtimes, wvars>>

\* handleFileChange, catch: the readFile of an existing file rejects
HandleFileChangeFails(path) ==
  /\ path \in reading
  /\ cache' = CacheDelete(cache, path)
  /\ reading' = reading \ {path}
  /\ UNCHANGED <<bvars, announced, debounce, fs, now, pc, op, loc, ret, mtimes, knownFiles, pollInterval, timers,
                 isReady, emitted, readyCount, awaiting, listed>>

\* a running manager with two plans
ErrorInit ==
  /\ fs = (PendingPath(TheFile) :> BaseDocument
           @@ PendingPath(OtherFile) :> PriorityDocument(<<"q">>, "normal", 1))
  /\ cache = InitialCache(fs)
  /\ now = 1
  /\ pc = [p \in Procs |-> "idle"]
  /\ op = [p \in Procs |-> NoOp]
  /\ loc = [p \in Procs |-> NoLoc]
  /\ ret = [p \in Procs |-> Null]
  /\ mtimes = [q \in DOMAIN fs |-> 1]
  /\ knownFiles = CurrentFiles(fs, mtimes)
  /\ emitted = <<>>
  /\ reading = {}
  /\ pollInterval = TRUE
  /\ timers = 1
  /\ isReady = TRUE
  /\ readyCount = 1
  /\ awaiting = {}
  /\ listed = <<>>
  /\ SessionInit
  /\ announced = DOMAIN CurrentFiles(fs, mtimes)
  /\ debounce = 0

\* the first caller's call on one plan
FirstCall(p) ==
  /\ op[p] = NoOp
  /\ \/ \E d \in DecisionIds : AnswerDecision(p, ThePlanId, d, <<"x">>)
     \/ SkipDecision(p, ThePlanId, <<"a">>)

\* a call on the other plan, made after the first call has returned
LaterCall(p, first) ==
  /\ op[p] = NoOp
  /\ op[first] # NoOp
  /\ pc[first] = "idle"
  /\ \E d \in {<<"a">>, <<"c">>} : AnswerDecision(p, <<"q">>, d, <<"x">>)

ErrorNext ==
  \/ Tick
  \/ FirstCall("p1")
  \/ LaterCall("p2", "p1")
  \/ UpdateFails("p1")
  \/ \E p \in Procs : UpdateRead(p)
  \/ \E p \in Procs : AtomicWriteOpen(p)
  \/ \E p \in Procs : AtomicWriteTemp(p)
  \/ \E p \in Procs : AtomicWriteRename(p)
  \/ \E p \in Procs : UpdateReturn(p)
  \/ PollScan
  \/ \E path \in reading : HandleFileChange(path)
  \/ \E path \in reading : HandleFileChangeFails(path)

ErrorSpec == ErrorInit /\ [][ErrorNext]_vars

(* ------------------ re-reads that overlap a mutation ------------------- *)

\* handleFileChange(filePath) is entered by handler p: readFile is called
HandleFileChangeStart(p, path) ==
  /\ pc[p] = "idle"
  /\ path \in reading
  /\ reading' = reading \ {path}
  /\ pc' = [pc EXCEPT ![p] = "hf_read"]
  /\ op' = [op EXCEPT ![p] = [NoOp EXCEPT !.kind = "reread"]]
  /\ loc' = [loc EXCEPT ![p] = [NoLoc EXCEPT !.filePath = path]]
  /\ ret' = [ret EXCEPT ![p] = Null]
  /\ UNCHANGED <<bvars, announced, debounce, fs, cache, now, mtimes, knownFiles, pollInterval, timers, isReady,
                 emitted, readyCount, awaiting, listed>>

\* readFile takes the content the file has at this moment; its promise
\* resolves later
HandleFileChangeRead(p) ==
  /\ pc[p] = "hf_read"
  /\ loc[p].filePath \in DOMAIN fs
  /\ pc' = [pc EXCEPT ![p] = "hf_set"]
  /\ loc' = [loc EXCEPT ![p].content = fs[loc[p].filePath]]
  /\ UNCHANGED <<fs, cache, now, op, ret, mtimes, wvars>>

\* the promise of readFile resolves: the content is decoded and stored
HandleFileChangeSet(p) ==
  /\ pc[p] = "hf_set"
  /\ cache' = handleFileChange(cache, (loc[p].filePath :> loc[p].content), loc[p].filePath, now)
  /\ pc' = [pc EXCEPT ![p] = "idle"]
  /\ UNCHANGED <<fs, now, op, loc, ret, mtimes, wvars>>

\* one AnswerDecision call of the first caller, while the watcher scans and
\* the manager's handler re-reads the file; nobody else writes it
RereadNext ==
  \/ Tick
  \/ OverlappingCall("p1")
  \/ UpdateRead("p1")
  \/ AtomicWriteOpen("p1")
  \/ AtomicWriteTemp("p1")
  \/ AtomicWriteRename("p1")
  \/ UpdateReturn("p1")
  \/ PollScan
  \/ \E path \in reading : HandleFileChangeStart("p2", path)
  \/ HandleFileChangeRead("p2")
  \/ HandleFileChangeSet("p2")

RereadSpec == ManagedInit /\ [][RereadNext]_vars

(* ------ stopping the manager while notifications are pending ----------- *)

MaxDebounce == 2

\* the listener given to fs.watch: a notification for a name that ends in
\* .md sets a timeout of 300 ms that will call scanDirectory(); no
\* notification arrives once every fs.watch handle is closed
WatchListener(fileName) ==
  IF timers > 0 /\ fileName[Len(fileName)] = ".md" /\ debounce < MaxDebounce
  THEN debounce + 1
  ELSE debounce

\* the producer writes a document and the operating system notifies fs.watch
NotifiedWrite(fileName, content) ==
  /\ now <= MaxProducerSteps
  /\ now' = now + 1
  /\ fs' = WriteFile(fs, PendingPath(fileName), content)
  /\ mtimes' = Touch(mtimes, PendingPath(fileName), now + 1)
  /\ awaiting' = IF PendingPath(fileName) \in DOMAIN fs THEN awaiting
                 ELSE awaiting \cup {fileName}
  /\ debounce' = WatchListener(fileName)
  /\ UNCHANGED <<bvars, announced, cache, pc, op, loc, ret, knownFiles, pollInterval, timers,
                 isReady, emitted, readyCount, reading, listed>>

\* a timeout set by the fs.watch listener fires: scanDirectory()
DebounceScan ==
  /\ debounce > 0
  /\ debounce' = debounce - 1
  /\ ScanDirectory
  /\ UNCHANGED <<bvars, fs, now, pc, op, loc, ret, mtimes, pollInterval, timers, isReady,
                 readyCount, listed>>

\* QueueManager.stop(): the watcher's stop(), then cache.clear()
ManagerStop ==
  /\ IF pollInterval
     THEN pollInterval' = FALSE /\ timers' = timers - 1
     ELSE UNCHANGED <<pollInterval, timers>>
  /\ isReady' = FALSE
  /\ cache' = <<>>
  /\ UNCHANGED <<bvars, announced, debounce, fs, now, pc, op, loc, ret, mtimes, knownFiles,
                 emitted, readyCount, reading, awaiting, listed>>

StopNext ==
  \/ PollScan
  \/ DebounceScan
  \/ ManagerStop
  \/ \E path \in reading : HandleFileChange(path)
  \/ \E i \in 1..Len(DirectoryOrder), content \in WatchedDocuments :
       NotifiedWrite(DirectoryOrder[i], content)

StopSpec == ManagedInit /\ [][StopNext]_vars

(* ------------- answers to decisions that a plan does not have ---------- *)

\* ids that no decision of the run's documents has: "b" is contained in the
\* id "ab", "d" in the text "id: " every id line starts with, "z" in no line
UnknownIds == {<<"b">>, <<"d">>, <<"z">>}

\* a button tap or a typed answer for a decision, known to the plan or not
UnknownCall(p) ==
  \E d \in DecisionIds \cup UnknownIds : AnswerDecision(p, ThePlanId, d, <<"x">>)

UnknownNext ==
  \/ Tick
  \/ UnknownCall("p1")
  \/ UpdateRead("p1")
  \/ AtomicWriteOpen("p1")
  \/ AtomicWriteTemp("p1")
  \/ AtomicWriteRename("p1")
  \/ UpdateReturn("p1")

UnknownSpec == Init /\ [][UnknownNext]_vars

(* --------------------------- the session store ------------------------- *)

MaxSessionTime == 3
MaxCalls == 3

\* SessionStore.TIMEOUT_MS: five minutes, in clock steps of five minutes
TIMEOUT_MS == 1

UserIds == {1, 2}

\* what handleCustomPrompt stores for a user
InputStates ==
  {[decisionId |-> <<"a">>, messageId |-> 7, planId |-> ThePlanId],
   [decisionId |-> <<"c">>, messageId |-> 8, planId |-> ThePlanId]}

\* setCustomInputState: the map after the call made at time t
setCustomInputState(states, userId, state, t) ==
  [u \in DOMAIN states \cup {userId} |->
     IF u = userId
     THEN [decisionId |-> state.decisionId, messageId |-> state.messageId,
           planId |-> state.planId, timestamp |-> t]
     ELSE states[u]]

\* clearCustomInputState: the map after the call
clearCustomInputState(states, userId) ==
  [u \in DOMAIN states \ {userId} |-> states[u]]

Expired(states, userId, t) ==
  userId \in DOMAIN states /\ t - states[userId].timestamp > TIMEOUT_MS

\* getCustomInputState that returns whatever is stored
getCustomInputStateNoExpiry(states, userId, t) ==
  IF userId \notin DOMAIN states THEN Null ELSE Some(states[userId])

\* getCustomInputState: what the call made at time t returns
getCustomInputState(states, userId, t) ==
  IF userId \notin DOMAIN states \/ Expired(states, userId, t)
  THEN Null
  ELSE Some(states[userId])

\* getCustomInputState: the map after the call made at time t
getCustomInputStateStore(states, userId, t) ==
  IF Expired(states, userId, t) THEN clearCustomInputState(states, userId) ELSE states

SessionCalled(kind, userId, state, result) ==
  /\ Len(calls) < MaxCalls
  /\ calls' = Append(calls, [at |-> now, kind |-> kind, result |-> result, state |-> state,
                             userId |-> userId])
  /\ UNCHANGED <<announced, debounce, fs, cache, now, pc, op, loc, ret, mtimes, knownFiles, pollInterval, timers,
                 isReady, emitted, readyCount, reading, awaiting, listed, update>>

SetCustomInputState(userId, state) ==
  /\ customInputStates' = setCustomInputState(customInputStates, userId, state, now)
  /\ SessionCalled("set", userId, Some(state), Null)

GetCustomInputState(userId) ==
  /\ customInputStates' = getCustomInputStateStore(customInputStates, userId, now)
  /\ SessionCalled("get", userId, Null, getCustomInputState(customInputStates, userId, now))

ClearCustomInputState(userId) ==
  /\ customInputStates' = clearCustomInputState(customInputStates, userId)
  /\ SessionCalled("clear", userId, Null, Null)

\* the clock of the session store advances
SessionTick ==
  /\ now < MaxSessionTime
  /\ now' = now + 1
  /\ UNCHANGED <<fs, cache, pc, op, loc, ret, mtimes, wvars>>

\* the singleton store of a process that holds no plan
StoreInit ==
  /\ fs = <<>>
  /\ cache = <<>>
  /\ now = 1
  /\ pc = [p \in Procs |-> "idle"]
  /\ op = [p \in Procs |-> NoOp]
  /\ loc = [p \in Procs |-> NoLoc]
  /\ ret = [p \in Procs |-> Null]
  /\ mtimes = <<>>
  /\ WatcherInit

SessionNext ==
  \/ SessionTick
  \/ \E u \in UserIds, state \in InputStates : SetCustomInputState(u, state)
  \/ \E u \in UserIds : GetCustomInputState(u)
  \/ \E u \in UserIds : ClearCustomInputState(u)

SessionSpec == StoreInit /\ [][SessionNext]_vars

(* -------------------------------- the bot ------------------------------ *)

\* config.telegram.allowedUsers
allowedUsers == {1}

\* ctx.from?.id of an update: missing, 0, the owner, a stranger
Senders == {Null, Some(0), Some(1), Some(2)}

UpdateTypes == {"command", "text", "callback"}
CallbackActions == {"queue", "start", "answer", "skip", "custom", "submit"}

\* the middleware that lets through every update that has a sender id
isAllowedAnySender(from) == from # Null /\ from[1] # 0

\* the authorization middleware: whether it calls next()
isAllowed(from) == from # Null /\ from[1] # 0 /\ from[1] \in allowedUsers

\* a handler that makes no call on the queue manager
NoQueueCall == UNCHANGED <<pc, op, loc, ret>>

\* handleCustomTextInput that leaves the state in the store when it answers
HandleTextKeepsState(p, userId, text) ==
  LET state == getCustomInputState(customInputStates, userId, now) IN
  IF state = Null
  THEN /\ customInputStates' = getCustomInputStateStore(customInputStates, userId, now)
       /\ NoQueueCall
  ELSE IF text = <<>>
  THEN /\ customInputStates' = customInputStates
       /\ NoQueueCall
  ELSE /\ customInputStates' = customInputStates
       /\ EnterUpdate(p, [answer |-> text, decisionId |-> state[1].decisionId,
                          planId |-> state[1].planId, kind |-> "answer"])

\* handleCustomTextInput up to its call of answerDecision
HandleText(p, userId, text) ==
  LET state == getCustomInputState(customInputStates, userId, now) IN
  IF state = Null
  THEN /\ customInputStates' = getCustomInputStateStore(customInputStates, userId, now)
       /\ NoQueueCall
  ELSE IF text = <<>>
  THEN /\ customInputStates' = customInputStates
       /\ NoQueueCall
  ELSE /\ customInputStates' = clearCustomInputState(customInputStates, userId)
       /\ EnterUpdate(p, [answer |-> text, decisionId |-> state[1].decisionId,
                          planId |-> state[1].planId, kind |-> "answer"])

\* handleCustomPrompt: the state is stored when the plan has the decision
HandleCustomPrompt(userId, planId, decisionId) ==
  LET plan == getPlan(planId) IN
  /\ customInputStates' =
       IF plan # Null /\ \E i \in 1..Len(plan[1].decisions) :
                           plan[1].decisions[i].id = decisionId
       THEN setCustomInputState(customInputStates, userId,
              [decisionId |-> decisionId, messageId |-> 7, planId |-> planId], now)
       ELSE customInputStates
  /\ NoQueueCall

\* the callback router up to the first await of the queue manager
HandleCallback(p, userId, action, decisionId) ==
  CASE action \in {"queue", "start"} ->
         /\ customInputStates' = clearCustomInputState(customInputStates, userId)
         /\ NoQueueCall
    [] action = "answer" ->
         /\ EnterUpdate(p, [answer |-> <<"x">>, decisionId |-> decisionId,
                            planId |-> ThePlanId, kind |-> "answer"])
         /\ UNCHANGED customInputStates
    [] action = "skip" ->
         /\ EnterUpdate(p, [answer |-> SkipSentinel, decisionId |-> decisionId,
                            planId |-> ThePlanId, kind |-> "skip"])
         /\ UNCHANGED customInputStates
    [] action = "custom" -> HandleCustomPrompt(userId, ThePlanId, decisionId)
    [] action = "submit" ->
         /\ EnterSubmit(p, ThePlanId)
         /\ UNCHANGED customInputStates

\* one update through the middleware chain of createBot: the authorization
\* middleware, then the handler of the update's type
HandleUpdate(p, from, type, action, decisionId, text) ==
  /\ pc[p] = "idle"
  /\ IF ~isAllowed(from)
     THEN /\ update' = [from |-> from, ran |-> "none"]
          /\ UNCHANGED customInputStates
          /\ NoQueueCall
     ELSE /\ update' = [from |-> from, ran |-> type]
          /\ CASE type = "command" -> UNCHANGED customInputStates /\ NoQueueCall
               [] type = "text" -> HandleText(p, from[1], text)
               [] type = "callback" -> HandleCallback(p, from[1], action, decisionId)
  /\ UNCHANGED <<announced, debounce, fs, cache, now, mtimes, knownFiles, pollInterval, timers, isReady, emitted,
                 readyCount, reading, awaiting, listed, calls>>

\* the updates of the owner and of others, handled one after the other
BotNext ==
  \/ \E from \in Senders, type \in UpdateTypes, action \in CallbackActions,
        d \in {<<"a">>, <<"c">>}, text \in {<<>>, <<"x">>} :
       HandleUpdate("p1", from, type, action, d, text)
  \/ Step("p1")

BotSpec == Init /\ [][BotNext]_vars

(* ---------------------- custom answers typed as text ------------------- *)

\* a manager that holds one plan with the decisions a and c, and a new bot
InputInit ==
  /\ fs = (PendingPath(TheFile) :> BaseDocument)
  /\ cache = InitialCache(fs)
  /\ now = 1
  /\ pc = [p \in Procs |-> "idle"]
  /\ op = [p \in Procs |-> NoOp]
  /\ loc = [p \in Procs |-> NoLoc]
  /\ ret = [p \in Procs |-> Null]
  /\ mtimes = [q \in DOMAIN fs |-> 1]
  /\ WatcherInit

\* the owner's and a stranger's texts and button presses (back to the queue,
\* start of the review, custom answer for a decision the plan has or has
\* not) while the clock of the session store advances
InputNext ==
  \/ SessionTick
  \/ \E from \in {Some(1), Some(2)}, type \in {"text", "callback"},
        action \in {"queue", "start", "custom"}, d \in {<<"a">>, <<"b">>},
        text \in {<<>>, <<"x">>} :
       HandleUpdate("p1", from, type, action, d, text)
  \/ UpdateRead("p1")
  \/ AtomicWriteOpen("p1")
  \/ AtomicWriteTemp("p1")
  \/ AtomicWriteRename("p1")
  \/ UpdateReturn("p1")

InputSpec == InputInit /\ [][InputNext]_vars

(* ------------------------------ callback data -------------------------- *)

MaxFieldLen == 2

\* the characters of ids and option keys: one that is not ':', and ':'
CallbackChars == {"a", ":"}

\* plan ids, decision ids and option keys: non-empty strings
CallbackFields ==
  UNION {[1..n -> CallbackChars] : n \in 1..MaxFieldLen}

\* buildDecisionKeyboard: the data of an option button,
\* `answer:${plan.frontmatter.id}:${decision.id}:${option}`
answerCallbackData(planId, decisionId, option) ==
  <<"answer", ":">> \o planId \o <<":">> \o decisionId \o <<":">> \o option

\* String.prototype.split with a one-character separator
RECURSIVE split(_, _)
split(str, sep) ==
  IF \A i \in 1..Len(str) : str[i] # sep
  THEN <<str>>
  ELSE LET k == CHOOSE i \in 1..Len(str) : str[i] = sep /\ \A j \in 1..(i - 1) : str[j] # sep
       IN <<SubSeq(str, 1, k - 1)>> \o split(SubSeq(str, k + 1, Len(str)), sep)

\* parts[i], Null where the array has no such element
PartAt(parts, i) == IF i <= Len(parts) THEN Some(parts[i]) ELSE Null

ParsedCallbackData(action, planId, decisionId, value) ==
  [action |-> action, decisionId |-> decisionId, planId |-> planId, value |-> value]

\* parseCallbackData
parseCallbackData(data) ==
  LET parts == split(data, ":")
  IN ParsedCallbackData(PartAt(parts, 1), PartAt(parts, 2), PartAt(parts, 3), PartAt(parts, 4))

\* an option button is built for a decision and pressed: the router parses
\* its data
PressOption(p, planId, decisionId, option) ==
  /\ op[p] = NoOp
  /\ op' = [op EXCEPT ![p] = [answer |-> option, decisionId |-> decisionId,
                              planId |-> planId, kind |-> "button"]]
  /\ ret' = [ret EXCEPT ![p] = Some(parseCallbackData(
                                      answerCallbackData(planId, decisionId, option)))]
  /\ UNCHANGED <<fs, cache, now, pc, loc, mtimes, wvars>>

CallbackNext ==
  \E planId \in CallbackFields, decisionId \in CallbackFields, option \in CallbackFields :
     PressOption("p1", planId, decisionId, option)

CallbackSpec == StoreInit /\ [][CallbackNext]_vars

(* ------------------------- observation helpers ------------------------- *)

ThePending == PendingPath(TheFile)
TheCompleted == CompletedPath(TheFile)

\* the decode of the document at path (Null when there is no such file)
Decoded(f, path) ==
  IF path \in DOMAIN f THEN parseDecisionFile(f[path], path, 1) ELSE Null

\* the status in the metadata block of the plan document, wherever it lies
DocumentStatus(f) ==
  LET content == IF ThePending \in DOMAIN f THEN f[ThePending] ELSE f[TheCompleted]
  IN Token(Get(matter(content).data, "status").s)

StatusRank(status) ==
  CASE status = "pending" -> 0
    [] status = "in_progress" -> 1
    [] status = "ready" -> 2
    [] status = "completed" -> 3
    [] OTHER -> 0

\* the plans one can observe in files f and cache c: the cache entries and
\* the decodes of the documents in the pending and completed directories
PlansIn(f, c) ==
  {c[q] : q \in DOMAIN c}
    \cup {Decoded(f, q)[1] : q \in {r \in PathsIn(f, "pending") \cup PathsIn(f, "completed") :
                                       IsPlanFileName(r[2]) /\ Decoded(f, r) # Null}}

ObservedPlans == PlansIn(fs, cache)

AnsweredIn(plan, id) ==
  \E i \in 1..Len(plan.decisions) :
     plan.decisions[i].id = id /\ plan.decisions[i].answer # NullValue

HasDecision(plan, id) == \E i \in 1..Len(plan.decisions) : plan.decisions[i].id = id

NonNullCount(plan) ==
  Cardinality({i \in 1..Len(plan.decisions) : plan.decisions[i].answer # NullValue})

\* caller p has returned from an answerDecision / skipDecision that gave a Plan
Updated(p) == pc[p] = "idle" /\ op[p].kind \in {"answer", "skip"} /\ ret[p] # Null

(* ------------------------------- claims -------------------------------- *)

\* C1: when two AnswerDecision calls for two different decisions of the same
\* plan overlap, then after both have returned the plan document holds both
\* answers and its answered counter counts both.
C1_NoLostUpdate ==
  (/\ Updated("p1") /\ Updated("p2")
   /\ op["p1"].decisionId # op["p2"].decisionId
   /\ HasDecision(loc["p1"].parsed[1], op["p1"].decisionId)
   /\ HasDecision(loc["p2"].parsed[1], op["p2"].decisionId))
  => LET doc == Decoded(fs, ThePending)[1] IN
       /\ AnsweredIn(doc, op["p1"].decisionId)
       /\ AnsweredIn(doc, op["p2"].decisionId)
       /\ doc.frontmatter.answered = 2

\* C2: across any sequence of AnswerDecision, SkipDecision and SubmitPlan
\* calls the status of the plan document never goes back in the order
\* pending < in_progress < ready < completed.
C2_StatusNeverRegresses ==
  [][fs' # fs => StatusRank(DocumentStatus(fs')) >= StatusRank(DocumentStatus(fs))]_vars

C4_CompletedHasAllAnswers ==
  \A plan \in ObservedPlans :
    plan.frontmatter.status = "completed" => NonNullCount(plan) = Len(plan.decisions)

\* the plan with this id is in the cache with status ready
ReadyInCache(planId) ==
  \E q \in DOMAIN cache :
     cache[q].frontmatter.id = planId /\ cache[q].frontmatter.status = "ready"

C6_SubmitArchives ==
  \A p \in Procs :
    (pc[p] = "idle" /\ op[p].kind = "submit" /\ loc[p].plan # Null)
    => /\ ret[p] # Null
       /\ ret[p][1].frontmatter.status = "completed"
       /\ ret[p][1].frontmatter.completedAt # 0
       /\ ThePending \notin DOMAIN fs
       /\ TheCompleted \in DOMAIN fs
       /\ Decoded(fs, TheCompleted) # Null
       /\ Decoded(fs, TheCompleted)[1].frontmatter.status = "completed"
       /\ Decoded(fs, TheCompleted)[1].frontmatter.completedAt # 0
       /\ getPlan(op[p].planId) = Null
       /\ DOMAIN cache = {}

\* C6 witness: a submit of a ready plan has returned
C6_Witness ==
  /\ pc["p1"] = "idle"
  /\ op["p1"].kind = "submit"
  /\ loc["p1"].plan # Null
  /\ loc["p1"].plan[1].frontmatter.status = "ready"
  /\ ret["p1"] # Null
  /\ TheCompleted \in DOMAIN fs

\* C7: for a decision d of the cached plan and a non-empty answer v,
\* AnswerDecision returns a Plan, re-reading the file gives the same Plan, and
\* in it d has answer v and status answered.
C7_AnswerIsRecorded ==
  \A p \in Procs :
    (/\ pc[p] = "idle" /\ op[p].kind = "answer"
     /\ loc[p].parsed # Null
     /\ HasDecision(loc[p].parsed[1], op[p].decisionId))
    => /\ ret[p] # Null
       /\ Decoded(fs, ThePending) = ret[p]
       /\ \A i \in 1..Len(ret[p][1].decisions) :
            ret[p][1].decisions[i].id = op[p].decisionId
            => /\ ret[p][1].decisions[i].answer = op[p].answer
               /\ ret[p][1].decisions[i].status = "answered"

\* C8: the Plan an AnswerDecision / SkipDecision call returns has answered =
\* the number of its decisions with a non-null answer, remaining = total -
\* answered, and status ready if remaining = 0, in_progress otherwise.
C8_CountersMatchDecisions ==
  \A p \in Procs :
    Updated(p)
    => LET fm == ret[p][1].frontmatter IN
         /\ fm.answered = NonNullCount(ret[p][1])
         /\ fm.remaining = fm.total - fm.answered
         /\ fm.status = (IF fm.remaining = 0 THEN "ready" ELSE "in_progress")

\* C9: AnswerDecision / SkipDecision on decision d leaves every other decision
\* e of the plan as it was (answer, status, answeredAt), whatever the two ids
\* are, and leaves the plan's id, agent, session, title, priority, tag and
\* notifySession as they were.
C9_OnlyTargetChanges ==
  \A p \in Procs :
    (Updated(p) /\ loc[p].parsed # Null)
    => LET before == loc[p].parsed[1]
           after == ret[p][1]
       IN /\ Len(after.decisions) = Len(before.decisions)
          /\ \A i \in 1..Len(before.decisions) :
               before.decisions[i].id # op[p].decisionId
               => after.decisions[i] = before.decisions[i]
          /\ \A f \in {"id", "agent", "session", "title", "priority", "tag", "notifySession"} :
               after.frontmatter[f] = before.frontmatter[f]

\* C10: in every Plan that is decoded or returned by AnswerDecision /
\* SkipDecision, a decision's status follows from its answer: null gives
\* pending, the skip sentinel gives skipped, any other answer gives answered.
C10_StatusDerivedFromAnswer ==
  \A plan \in ObservedPlans \cup {ret[p][1] : p \in {q \in Procs : ret[q] # Null}} :
    \A i \in 1..Len(plan.decisions) :
      plan.decisions[i].status =
        (IF plan.decisions[i].answer = NullValue THEN "pending"
         ELSE IF plan.decisions[i].answer = SkipSentinel THEN "skipped"
         ELSE "answered")

\* the plan document, wherever it lies, decodes with a non-null answer for id
AnsweredInDocument(f, id) ==
  LET path == IF ThePending \in DOMAIN f THEN ThePending ELSE TheCompleted IN
  /\ Decoded(f, path) # Null
  /\ AnsweredIn(Decoded(f, path)[1], id)

\* C11: once the plan document decodes with a non-null answer for a decision,
\* no step of an AnswerDecision / SkipDecision call, whatever the answer
\* value, leaves a document that decodes with a null answer for it.
C11_AnswerNeverCleared ==
  [][fs' # fs => \A id \in DecisionIds :
                   AnsweredInDocument(fs, id) => AnsweredInDocument(fs', id)]_vars

\* C15: at every step of a write of the plan document, also when two updates
\* overlap, the document under its final path is either what it was or the
\* complete content a writer renames into place, and it decodes to a Plan
\* with the plan's id; it is never empty or missing (a crash at any step
\* leaves the state of that step).
C15_AtomicWrite ==
  [][fs' # fs =>
       /\ ThePending \in DOMAIN fs'
       /\ \/ fs'[ThePending] = fs[ThePending]
          \/ \E p \in Procs : /\ pc[p] = "aw_rename"
                               /\ loc[p].target = ThePending
                               /\ fs'[ThePending] = loc[p].content
       /\ fs'[ThePending] # <<>>
       /\ Decoded(fs', ThePending) # Null
       /\ Decoded(fs', ThePending)[1].frontmatter.id = ThePlanId
    ]_vars

\* C15 witness: one update has returned and the other has just created its
\* empty temp file, while the final path holds a document that differs from
\* the one the run began with
C15_Witness ==
  /\ Updated("p1")
  /\ pc["p2"] = "aw_fill"
  /\ fs[getTempPath(ThePending, "p2")] = <<>>
  /\ fs[ThePending] = loc["p1"].content

\* what C14 compares of a document: each decision's answer and status, the
\* counters and the plan status
DocumentState(content) ==
  LET plan == parseDecisionFile(content, ThePending, 1)[1] IN
  <<[i \in 1..Len(plan.decisions) |->
       <<plan.decisions[i].id, plan.decisions[i].answer, plan.decisions[i].status>>],
    plan.frontmatter.answered, plan.frontmatter.remaining, plan.frontmatter.status>>

\* updateDecision applied to the document a call has just written: what the
\* same call, made again at once, writes
WrittenAgain(p) ==
  updateDecisionContent(loc[p].content,
                        parseDecisionFile(loc[p].content, loc[p].filePath, now)[1],
                        op[p].decisionId, op[p].answer, now)

\* C14: when SkipDecision has skipped a decision of the plan, skipping the
\* same decision again leaves the document in the same state: the same
\* answers and statuses of the decisions, the same answered / remaining
\* counters and the same plan status.
C14_SkipIdempotent ==
  \A p \in Procs :
    (/\ Updated(p) /\ op[p].kind = "skip"
     /\ HasDecision(ret[p][1], op[p].decisionId))
    => DocumentState(WrittenAgain(p)) = DocumentState(loc[p].content)

\* C12: every Plan that decode gives (cached or decoded from a document of
\* the queue) has answered + remaining = total, whatever total, answered and
\* remaining the document's metadata carries.
C12_CountersAddUp ==
  \A plan \in ObservedPlans :
    plan.frontmatter.answered + plan.frontmatter.remaining = plan.frontmatter.total

\* C12 witness: a plan is cached whose document says total 3, answered 1,
\* remaining 5
C12_Witness ==
  /\ ThePending \in DOMAIN cache
  /\ LET data == matter(fs[ThePending]).data IN
       /\ Get(data, "total").n = 3
       /\ Get(data, "answered").n = 1
       /\ Get(data, "remaining").n = 5
  /\ cache[ThePending].frontmatter.remaining = 2

\* C13: in every Plan that decode has given to the manager, total is the
\* number of decoded decisions and answered the number of decoded decisions
\* with a non-null answer, whatever values the metadata carries.
C13_CountersFromDecisions ==
  \A q \in DOMAIN cache :
    /\ cache[q].frontmatter.total = Len(cache[q].decisions)
    /\ cache[q].frontmatter.answered = NonNullCount(cache[q])

\* the rank of a priority in the listing
SeverityRank(priority) ==
  CASE priority = "urgent" -> 0
    [] priority = "high" -> 1
    [] priority = "normal" -> 2
    [] priority = "low" -> 3

\* C19: a getPending() call leaves the cache as it is and returns every
\* cached plan exactly once, by priority rank ascending and, for equal
\* priority, by creation time ascending.
C19_GetPendingSorted ==
  [][\A p \in Procs :
       (pc[p] = "idle" /\ pc'[p] = "idle" /\ op'[p].kind = "getPending")
       => /\ cache' = cache
          /\ Len(listed') = Cardinality(DOMAIN cache)
          /\ \A q \in DOMAIN cache :
               Cardinality({i \in 1..Len(listed') : listed'[i] = cache[q]}) = 1
          /\ \A i, j \in 1..Len(listed') :
               i < j =>
                 LET a == listed'[i].frontmatter
                     b == listed'[j].frontmatter
                 IN \/ SeverityRank(a.priority) < SeverityRank(b.priority)
                    \/ /\ a.priority = b.priority
                       /\ a.createdAt <= b.createdAt
    ]_vars

\* C19 witness: three plans listed, an urgent one before two of equal
\* priority, the older of which comes first
C19_Witness ==
  /\ op["p1"].kind = "getPending"
  /\ Len(listed) = 3
  /\ listed[1].frontmatter.priority = "urgent"
  /\ listed[2].frontmatter.priority = listed[3].frontmatter.priority
  /\ listed[2].frontmatter.createdAt < listed[3].frontmatter.createdAt

\* a document lacks one of the five required metadata fields
LacksRequiredField(content) ==
  \E f \in {"id", "agent", "session", "title", "status"} : ~HasKey(matter(content).data, f)

ListedNames ==
  {n \in {DirectoryOrder[i] : i \in 1..Len(DirectoryOrder)} :
     PendingPath(n) \in DOMAIN fs /\ isValidMdFile(n)}

\* the three events that report a difference (every one of them is echoed
\* as a 'change' event, which reports nothing of its own)
PlanEvents == {"plan:added", "plan:updated", "plan:removed"}

\* the event a scan owes for a name, comparing the listing with knownFiles
DifferenceFor(n) ==
  IF n \in ListedNames
  THEN IF n \notin DOMAIN knownFiles THEN "plan:added"
       ELSE IF knownFiles[n] # mtimes[PendingPath(n)] THEN "plan:updated" ELSE "none"
  ELSE IF n \in DOMAIN knownFiles THEN "plan:removed" ELSE "none"

\* C16: a scan of the watcher emits exactly one event for every name whose
\* presence or mtime differs between the filtered listing and the remembered
\* listing (added, updated or removed accordingly) and none for any other
\* name; afterwards the remembered listing equals the current one, so that
\* a second scan with no change in between emits nothing.
C16_ScanEmitsDifferences ==
  [][(knownFiles' # knownFiles \/ emitted' # emitted) =>
       /\ \A i \in 1..Len(DirectoryOrder) :
            LET n == DirectoryOrder[i]
                at == {j \in 1..Len(emitted') :
                         emitted'[j].fileName = n /\ emitted'[j].event \in PlanEvents}
            IN IF DifferenceFor(n) = "none" THEN at = {}
               ELSE /\ Cardinality(at) = 1
                    /\ \A j \in at : emitted'[j].event = DifferenceFor(n)
       /\ DOMAIN knownFiles' = ListedNames
       /\ \A n \in ListedNames : knownFiles'[n] = mtimes[PendingPath(n)]
       /\ ScanEvents(knownFiles', CurrentFiles(fs', mtimes')) = <<>>]_vars

\* a scan has just reported one file as added and another as removed
C16_Witness ==
  /\ Len(emitted) = 4
  /\ {emitted[j].event : j \in 1..Len(emitted)} = {"plan:added", "plan:removed", "change"}
  /\ DOMAIN knownFiles = ListedNames

\* C18: over the lifetime of a watcher, whatever sequence of start() and
\* stop() is called, 'ready' is emitted and the state goes from not-ready to
\* ready only once, on a step that leaves the first scan completed.
C18_ReadyOnce ==
  [][(readyCount' # readyCount \/ (~isReady /\ isReady')) =>
       /\ readyCount = 0 /\ readyCount' = 1
       /\ ~isReady /\ isReady'
       /\ knownFiles' = CurrentFiles(fs', mtimes')]_vars

\* the names the watcher reports
WatchedNames == {n \in {DirectoryOrder[i] : i \in 1..Len(DirectoryOrder)} : isValidMdFile(n)}

\* a file the latest scan has not seen as it is now
Unreported(n) ==
  /\ n \in ListedNames
  /\ n \notin DOMAIN knownFiles \/ knownFiles[n] # mtimes[PendingPath(n)]

\* the latest scan emitted one of these events for the name
Reported(n, kinds) ==
  \E j \in 1..Len(emitted) : emitted[j].fileName = n /\ emitted[j].event \in kinds

\* a valid plan document lies in the pending directory under a name the
\* watcher accepts
ValidAt(n) ==
  /\ n \in ListedNames
  /\ LET parsed == parseDecisionFile(fs[PendingPath(n)], PendingPath(n), now)
     IN parsed # Null /\ isValidDecisionFile(parsed[1])

\* the plan of the file, as the file is now, is among those GetPending()
\* returns
Listed(n) ==
  /\ PendingPath(n) \in DOMAIN cache
  /\ PendingPath(n) \in DOMAIN fs
  /\ cache[PendingPath(n)].rawContent = fs[PendingPath(n)]

\* C17 as stated: a valid document created after init that stays is
\* eventually reported by plan:added and eventually listed by GetPending(),
\* as long as the poll timer keeps firing.
C17_AddedAndListed ==
  \A n \in WatchedNames :
    /\ (n \in awaiting) ~> (n \notin awaiting \/ timers = 0)
    /\ ValidAt(n) ~> (Listed(n) \/ ~ValidAt(n) \/ timers = 0)

\* C17: a valid document created after init that stays is eventually
\* reported by plan:added, or by plan:updated when the watcher still
\* remembered a file of that name from its previous scan, and is eventually
\* listed by GetPending(), as long as the poll timer keeps firing.
C17_ReportedAndListed ==
  /\ \A n \in WatchedNames :
       /\ (n \in awaiting /\ Unreported(n)) ~>
            (Reported(n, {"plan:added", "plan:updated"}) \/ n \notin ListedNames \/ timers = 0)
       /\ ValidAt(n) ~> (Listed(n) \/ ~ValidAt(n) \/ timers = 0)
  /\ [][\A n \in awaiting :
          (emitted' # emitted /\ n \notin DOMAIN knownFiles) =>
            ~\E j \in 1..Len(emitted') :
               emitted'[j].fileName = n /\ emitted'[j].event = "plan:updated"]_vars

\* a file removed and created again between two scans has been reported as
\* updated, read and cached
C17_Witness ==
  /\ TheFile \in awaiting
  /\ Reported(TheFile, {"plan:updated"})
  /\ ValidAt(TheFile) /\ Listed(TheFile)
  /\ reading = {}
  /\ timers > 0

\* the valid plan documents of the pending directory, as refresh() finds them
ValidPending(f) ==
  {q \in PathsIn(f, "pending") :
     /\ IsPlanFileName(q[2])
     /\ LET parsed == parseDecisionFile(f[q], q, 1)
        IN parsed # Null /\ isValidDecisionFile(parsed[1])}

\* C21: when the init() after a stop() or a crash has returned, the cache
\* (what GetPending() returns) holds every valid plan document of the
\* pending directory, and the answer of the last AnswerDecision /
\* SkipDecision call that returned a plan before the stop is the answer of
\* that decision in the reloaded plan.
C21_SurvivesRestart ==
  [][(pc["p2"] = "rf_load" /\ pc'["p2"] = "idle") =>
       /\ DOMAIN cache' = ValidPending(fs)
       /\ Updated("p1") =>
            \E q \in DOMAIN cache' :
              /\ cache'[q].frontmatter.id = op["p1"].planId
              /\ \A i \in 1..Len(cache'[q].decisions) :
                   cache'[q].decisions[i].id = op["p1"].decisionId =>
                     cache'[q].decisions[i].answer = op["p1"].answer]_vars

\* the file is gone from the pending directory and the watcher's removed
\* event for it has been emitted and handled
RemovedAndHandled(n) ==
  /\ PendingPath(n) \notin DOMAIN fs
  /\ n \notin DOMAIN knownFiles

\* C22: once a plan's file is deleted from the pending directory and the
\* removed event is handled, GetPlan(id) finds nothing, the plan is not in
\* what GetPending() returns, and an AnswerDecision for it returns not-found
\* at once.
C22_RemovedIsGone ==
  /\ [](RemovedAndHandled(TheFile) =>
         /\ getPlan(ThePlanId) = Null
         /\ PendingPath(TheFile) \notin DOMAIN cache)
  /\ [][\A p \in Procs :
          (RemovedAndHandled(TheFile) /\ pc[p] = "idle" /\ op'[p] # op[p]) =>
            (pc'[p] = "idle" /\ ret'[p] = Null)]_vars

\* the decisionId: answer entries of a notification document
AnswerEntries(content) ==
  LET body == matter(content).body IN SelectSeq(body, LAMBDA line : line.k = "-")

\* C24: when the completion side effect has run for a plan, its notification
\* document exists if and only if the plan declares notifySession, and then
\* holds one decisionId: answer entry for each decision of the plan, in
\* order, with the answer of that decision.
C24_NotificationListsAnswers ==
  [][\A p \in Procs :
       (pc[p] # "hp_return" /\ pc'[p] = "hp_return") =>
         LET plan == loc[p].plan[1]
             target == NotifyPath(NotificationName(plan.frontmatter.notifySession,
                                                   plan.frontmatter.id))
         IN /\ (plan.frontmatter.notifySession # <<>>) <=> (target \in DOMAIN fs')
            /\ target \in DOMAIN fs' =>
                 /\ \A i \in 1..Len(plan.decisions) : plan.decisions[i].answer # NullValue
                 /\ AnswerEntries(fs'[target]) =
                      [i \in 1..Len(plan.decisions) |->
                         Line("-", plan.decisions[i].id \o <<": ">>
                                     \o plan.decisions[i].answer, 0)]]_vars

\* the notify session and the plan id a notification document names
NotificationKey(content) ==
  <<TextOr(matter(content).data, "notify_session", <<>>),
    TextOr(matter(content).data, "plan_id", <<>>)>>

\* C23: whenever no write is under way, every file of the notify directory
\* is a notification document, no two of them are of the same notify session
\* and plan id, and the file a writeNotification call returned is there.
C23_OneNotificationPerPlan ==
  (\A p \in Procs : pc[p] = "idle") =>
    /\ \A q \in PathsIn(fs, "notify") : NotificationKey(fs[q]) \in NotifySessions \X PlanIds
    /\ \A q1, q2 \in PathsIn(fs, "notify") :
         NotificationKey(fs[q1]) = NotificationKey(fs[q2]) => q1 = q2
    /\ \A p \in Procs : (op[p].kind = "notify" /\ ret[p] # Null) => ret[p][1] \in DOMAIN fs

\* both callers have written the notification of the same session and plan,
\* at different times, and one document is there
C23_Witness ==
  /\ \A p \in Procs : pc[p] = "idle" /\ op[p].kind = "notify" /\ ret[p] # Null
  /\ ret["p1"] = ret["p2"]
  /\ Cardinality(PathsIn(fs, "notify")) = 1
  /\ now > 1
  /\ Get(matter(fs[ret["p1"][1]]).data, "completed_at").n = now

\* C25: when the relocation of the completion side effect has failed (the
\* file is still in the pending directory when completePlan is over), the
\* plan keeps its cache entry as it was and its pending document is not
\* marked completed.
C25_FailedRelocationKeepsPlan ==
  [][\A p \in Procs :
       LET path == loc[p].plan[1].filePath IN
       (pc[p] = "cp_move" /\ pc'[p] # "cp_move" /\ path \in DOMAIN fs') =>
         /\ path \in DOMAIN cache'
         /\ path \in DOMAIN cache => cache'[path] = cache[path]
         /\ DocumentStatus(fs') # "completed"]_vars

\* C30: a relocation into an archive that already holds a file of the same
\* name fails: the archived document stays as it was and the plan's file
\* stays in the pending directory.
C30_RelocationKeepsArchived ==
  [][\A p \in Procs :
       LET path == loc[p].plan[1].filePath IN
       (pc[p] = "cp_move" /\ pc'[p] # "cp_move" /\ path \in DOMAIN fs
          /\ CompletedPath(path[2]) \in DOMAIN fs) =>
         /\ fs'[CompletedPath(path[2])] = fs[CompletedPath(path[2])]
         /\ path \in DOMAIN fs']_vars

\* the last call before call n that set or cleared the state of user u (0: none)
RECURSIVE LastSetOrClear(_, _)
LastSetOrClear(u, n) ==
  IF n = 0 THEN 0
  ELSE IF calls[n].userId = u /\ calls[n].kind \in {"set", "clear"} THEN n
  ELSE LastSetOrClear(u, n - 1)

\* what the claim says call i, a getCustomInputState, returns
LatestUnexpired(i) ==
  LET j == LastSetOrClear(calls[i].userId, i - 1) IN
  IF j = 0 THEN Null
  ELSE IF calls[j].kind = "clear" \/ calls[i].at - calls[j].at > TIMEOUT_MS THEN Null
  ELSE LET state == calls[j].state[1]
       IN Some([decisionId |-> state.decisionId, messageId |-> state.messageId,
                planId |-> state.planId, timestamp |-> calls[j].at])

\* C27: getCustomInputState(u) returns the state most recently set for u when
\* it was not cleared and no more than the timeout has passed since it was
\* set, and null otherwise; an entry found expired is removed by the read;
\* a set or clear for one user leaves what is returned for every other user.
C27_LatestUnexpiredState ==
  /\ [](\A i \in 1..Len(calls) :
          calls[i].kind = "get" =>
            /\ calls[i].result = LatestUnexpired(i)
            /\ (i = Len(calls) /\ calls[i].result = Null) =>
                  calls[i].userId \notin DOMAIN customInputStates)
  /\ [][\A u \in UserIds :
          (/\ Len(calls') = Len(calls) + 1
           /\ calls'[Len(calls')].kind \in {"set", "clear"}
           /\ calls'[Len(calls')].userId # u) =>
             getCustomInputState(customInputStates', u, now')
               = getCustomInputState(customInputStates, u, now)]_vars

\* one user's state was read in time and read again after it expired, while
\* the state of the other user was set in between
C27_Witness ==
  /\ Len(calls) = 3
  /\ calls[1].kind = "set" /\ calls[2].kind = "set" /\ calls[1].userId # calls[2].userId
  /\ calls[3].kind = "get" /\ calls[3].userId = calls[1].userId
  /\ calls[3].at - calls[1].at > TIMEOUT_MS
  /\ calls[3].result = Null
  /\ DOMAIN customInputStates = {calls[2].userId}

\* caller p answers a decision that the plan it read does not have
UnknownDecision(p) ==
  /\ op[p].kind = "answer"
  /\ loc[p].parsed # Null
  /\ \A i \in 1..Len(loc[p].parsed[1].decisions) :
       loc[p].parsed[1].decisions[i].id # op[p].decisionId

\* C28: AnswerDecision with a decisionId that matches no decision of the plan
\* writes a document whose decisions have the answer, status and answeredAt
\* they had before the call and whose answered and remaining counters are
\* the ones the document had before the call.
C28_UnknownDecisionChangesNothing ==
  \A p \in Procs :
    (UnknownDecision(p) /\ pc[p] = "aw_write") =>
      LET before == loc[p].parsed[1]
          after == parseDecisionFile(loc[p].content, loc[p].target, now)
      IN /\ after # Null
         /\ Len(after[1].decisions) = Len(before.decisions)
         /\ \A i \in 1..Len(before.decisions) :
              /\ after[1].decisions[i].answer = before.decisions[i].answer
              /\ after[1].decisions[i].status = before.decisions[i].status
              /\ after[1].decisions[i].answeredAt = before.decisions[i].answeredAt
         /\ after[1].frontmatter.answered = before.frontmatter.answered
         /\ after[1].frontmatter.remaining = before.frontmatter.remaining

\* C29: AnswerDecision with a decisionId unknown in an existing plan returns
\* an explicit failure: neither a plan (success) nor null (plan not found).
C29_UnknownDecisionFails ==
  \A p \in Procs :
    (UnknownDecision(p) /\ pc[p] = "idle") =>
      /\ ret[p] # Null
      /\ "frontmatter" \notin DOMAIN ret[p][1]

\* C26: an update whose sender id is missing or not in allowedUsers runs no
\* handler: the callers of the queue manager, the files, the cache and the
\* session store are as they were before the update.
C26_UnauthorizedRunsNothing ==
  [][(update' # update /\ (update'.from = Null \/ update'.from[1] \notin allowedUsers)) =>
       /\ update'.ran = "none"
       /\ UNCHANGED <<fs, cache, pc, op, loc, ret, customInputStates>>]_vars

\* a stranger's update arrived while the owner's custom input was awaited and
\* after the owner had answered a decision
C26_Witness ==
  /\ update = [from |-> Some(2), ran |-> "none"]
  /\ 1 \in DOMAIN customInputStates
  /\ op["p1"].kind = "answer"

\* a file name that begins with '.' or contains the marker '.tmp-'
Reserved(fileName) ==
  \/ fileName[1] \in {".tmp-", ".md"}
  \/ \E i \in 1..Len(fileName) : fileName[i] = ".tmp-"

\* C31: no file whose name begins with '.' or contains '.tmp-' has a cache
\* entry, is known to the watcher or is named by a watcher event.
C31_ReservedNamesIgnored ==
  /\ \A q \in DOMAIN cache : ~Reserved(q[2])
  /\ \A n \in DOMAIN knownFiles : ~Reserved(n)
  /\ \A i \in 1..Len(emitted) : ~Reserved(emitted[i].fileName)

\* C32: two decodes of identical content with the same source path, made at
\* any two times, return identical Plans in every field.
C32_DecodeDeterministic ==
  (op["p1"].kind = "decode" /\ op["p2"].kind = "decode") => ret["p1"] = ret["p2"]

\* C33: AnswerDecision and SkipDecision never throw: when the plan file
\* cannot be read, written or renamed the call returns null and the document
\* under its final name is as it was; a later call on another plan returns
\* the plan with the answer.
C33_FailuresReturnNull ==
  /\ [](\A p \in Procs :
          /\ pc[p] # "thrown"
          /\ (pc[p] = "idle" /\ op[p].planId = <<"q">>) =>
               /\ ret[p] # Null
               /\ \E i \in 1..Len(ret[p][1].decisions) :
                    /\ ret[p][1].decisions[i].id = op[p].decisionId
                    /\ ret[p][1].decisions[i].answer = op[p].answer)
  /\ [][\A p \in Procs :
          (loc'[p].after = "failed" /\ loc[p].after # "failed") =>
             /\ pc'[p] = "idle"
             /\ ret'[p] = Null
             /\ loc[p].filePath \in DOMAIN fs' <=> loc[p].filePath \in DOMAIN fs
             /\ loc[p].filePath \in DOMAIN fs => fs'[loc[p].filePath] = fs[loc[p].filePath]]_vars

\* the rename of the first call was rejected, its temp file is left behind,
\* and the later call on the other plan has returned that plan
C33_Witness ==
  /\ loc["p1"].after = "failed"
  /\ getTempPath(PendingPath(TheFile), "p1") \in DOMAIN fs
  /\ fs[PendingPath(TheFile)] = BaseDocument
  /\ pc["p2"] = "idle"
  /\ ret["p2"] # Null

\* C34: after AnswerDecision has returned an updated Plan for a plan id,
\* GetPlan of that id returns a Plan with the same decision answers and the
\* same counters, whatever re-reads of the file overlapped the call.
C34_ReadYourWrites ==
  (pc["p1"] = "idle" /\ op["p1"].kind = "answer" /\ ret["p1"] # Null) =>
     LET got == getPlan(op["p1"].planId)
         updated == ret["p1"][1]
     IN /\ got # Null
        /\ Len(got[1].decisions) = Len(updated.decisions)
        /\ \A i \in 1..Len(updated.decisions) :
             got[1].decisions[i].answer = updated.decisions[i].answer
        /\ got[1].frontmatter.answered = updated.frontmatter.answered
        /\ got[1].frontmatter.remaining = updated.frontmatter.remaining

\* every watcher event has been handled and no call is in flight: the last
\* scan saw the directory as it is and no handler waits for its read
Quiescent ==
  /\ \A p \in Procs : pc[p] = "idle"
  /\ reading = {}
  /\ knownFiles = CurrentFiles(fs, mtimes)

\* the file is in the pending directory and decodes to a Plan with a decision
DecodesToPlan(path) ==
  /\ path \in DOMAIN fs
  /\ parseDecisionFile(fs[path], path, now) # Null
  /\ isValidDecisionFile(parseDecisionFile(fs[path], path, now)[1])

\* C35: at quiescence the cache has an entry for a plan file path exactly
\* when the file exists in the pending directory and decodes to a Plan with
\* at least one decision, and the entry is the decode of the file's content.
C35_CacheMatchesDirectory ==
  Quiescent =>
    \A i \in 1..Len(DirectoryOrder) :
      LET path == PendingPath(DirectoryOrder[i]) IN
      isValidMdFile(DirectoryOrder[i]) =>
        /\ path \in DOMAIN cache <=> DecodesToPlan(path)
        /\ path \in DOMAIN cache => cache[path] = parseDecisionFile(fs[path], path, now)[1]

\* C36: no plan document in the pending directory and no cache entry has
\* the status completed, in any state, the states between the steps of
\* completePlan and after a rejected relocation included.
C36_NoCompletedInPending ==
  /\ ThePending \in DOMAIN fs =>
       Token(Get(matter(fs[ThePending]).data, "status").s) # "completed"
  /\ \A q \in DOMAIN cache : cache[q].frontmatter.status # "completed"

\* C37: for each file name the events of one watcher are well-formed: a
\* plan:added is emitted only for a name whose last event is not added or
\* updated (no event yet, or removed), plan:updated and plan:removed only
\* for a name whose last event is added or updated, and one scan emits at
\* most one plan event for a name.
C37_EventsWellFormed ==
  [][(emitted' # emitted \/ knownFiles' # knownFiles) =>
       \A i \in 1..Len(emitted') :
         /\ emitted'[i].event = "plan:added" => emitted'[i].fileName \notin announced
         /\ emitted'[i].event \in {"plan:updated", "plan:removed"} =>
              emitted'[i].fileName \in announced
         /\ \A j \in 1..Len(emitted') :
              (/\ emitted'[j].fileName = emitted'[i].fileName
               /\ emitted'[i].event # "change"
               /\ emitted'[j].event # "change") => j = i]_vars

\* a watcher that was started a second time has reported the removal of a
\* file it had reported before
C37_Witness ==
  /\ readyCount = 2
  /\ \E i \in 1..Len(emitted) :
       emitted[i].event = "plan:removed" /\ emitted[i].fileName = TheFile
  /\ TheFile \notin announced
  /\ OtherFile \in announced

\* C38: once stop() has returned no directory scan runs and no event is
\* emitted any more, and the cache that QueueManager.stop() cleared stays
\* empty.
C38_NothingAfterStop ==
  [][~isReady => (/\ emitted' = emitted
                  /\ knownFiles' = knownFiles
                  /\ debounce' = debounce
                  /\ cache' = <<>>)]_vars

\* a text message whose trimmed text is empty is handled
EmptyText(from) == HandleUpdate("p1", from, "text", "queue", <<"a">>, <<>>)

\* C39: a text message starts an AnswerDecision call only when its sender
\* has a stored, unexpired custom-input state; the call is for that state's
\* plan and decision with a non-empty answer, and the state is gone from
\* the store when the call starts; an empty text starts no call and keeps
\* an unexpired state.
C39_TextAnswersOncePerPrompt ==
  /\ [][(update'.ran = "text" /\ pc["p1"] = "idle" /\ (pc' # pc \/ op' # op)) =>
          LET u == update'.from[1] IN
          /\ u \in DOMAIN customInputStates
          /\ ~Expired(customInputStates, u, now)
          /\ op'["p1"].kind = "answer"
          /\ op'["p1"].planId = customInputStates[u].planId
          /\ op'["p1"].decisionId = customInputStates[u].decisionId
          /\ op'["p1"].answer # <<>>
          /\ u \notin DOMAIN customInputStates']_vars
  /\ [][\A from \in {Some(1), Some(2)} :
          EmptyText(from) =>
            /\ pc' = pc /\ op' = op /\ fs' = fs /\ cache' = cache
            /\ (from[1] \in DOMAIN customInputStates /\ ~Expired(customInputStates, from[1], now))
                 => customInputStates' = customInputStates]_vars

\* a text of the owner is being written as the answer of the prompted
\* decision, at the last clock value, and the store holds no state any more
C39_Witness ==
  /\ update = [from |-> Some(1), ran |-> "text"]
  /\ pc["p1"] = "aw_rename"
  /\ op["p1"].kind = "answer"
  /\ op["p1"].decisionId = <<"a">>
  /\ customInputStates = <<>>
  /\ now = MaxSessionTime

\* C40: parsing the data of an option button gives the plan id, the
\* decision id and the option the button was built from.
C40_CallbackDataRoundTrips ==
  op["p1"].kind = "button" =>
    ret["p1"] = Some(ParsedCallbackData(Some(<<"answer">>), Some(op["p1"].planId),
                                        Some(op["p1"].decisionId), Some(op["p1"].answer)))

====
